---- MODULE Spec2Model ----
(***************************************************************************)
(* Log analysis engine of roblox-studio-physical-operation (log-utils.mjs  *)
(* and log-filter.mjs): line parser, timestamp utilities, run-context      *)
(* indexer and the query operations, as a state machine over one log path. *)
(***************************************************************************)
EXTENDS Integers, Sequences, FiniteSets, TLC

(***************************************************************************)
(* Strings.  A JavaScript string is modelled as a record                   *)
(*   [head |-> <TLA+ string>, fill |-> n]                                  *)
(* standing for head followed by n copies of FillChar.  The run-length     *)
(* tail lets a message be tens of kilobytes long without the model having  *)
(* to hold every character.  All strings of the model are ASCII, so the    *)
(* UTF-8 byte length is the character count.                               *)
(***************************************************************************)
FillChar == "x"

Str(s) == [head |-> s, fill |-> 0]

Padded(s, n) == [head |-> s, fill |-> n]

Min(a, b) == IF a < b THEN a ELSE b

Max(a, b) == IF a > b THEN a ELSE b

\* the character at the 1-based index i, "" outside the string
CharAt(s, i) == IF 1 <= i /\ i <= Len(s) THEN SubSeq(s, i, i) ELSE ""

RECURSIVE Repeat(_, _)
Repeat(c, n) == IF n <= 0 THEN "" ELSE c \o Repeat(c, n - 1)

\* String.prototype.length / Buffer.byteLength(_, "utf-8") on ASCII text
ByteLength(t) == Len(t.head) + t.fill

\* the first n characters of t, as a plain string
Prefix(t, n) ==
  IF n <= Len(t.head) THEN SubSeq(t.head, 1, n)
  ELSE t.head \o Repeat(FillChar, Min(n - Len(t.head), t.fill))

\* String.prototype.startsWith
StartsWith(t, p) == Len(p) <= ByteLength(t) /\ Prefix(t, Len(p)) = p

StrIncludes(s, p) ==
  \E i \in 1..(Len(s) - Len(p) + 1) : SubSeq(s, i, i + Len(p) - 1) = p

\* String.prototype.includes: every window of t of length Len(p) occurs in
\* the first Len(head) + Len(p) characters of t
Includes(t, p) == StrIncludes(Prefix(t, Len(t.head) + Len(p)), p)

WhiteSpace == {" ", "\t", "\r", "\f"}

RECURSIVE TrimStart(_)
TrimStart(s) ==
  IF Len(s) > 0 /\ CharAt(s, 1) \in WhiteSpace
  THEN TrimStart(SubSeq(s, 2, Len(s))) ELSE s

RECURSIVE TrimEnd(_)
TrimEnd(s) ==
  IF Len(s) > 0 /\ CharAt(s, Len(s)) \in WhiteSpace
  THEN TrimEnd(SubSeq(s, 1, Len(s) - 1)) ELSE s

\* String.prototype.trim
Trim(t) ==
  IF t.fill > 0 THEN [head |-> TrimStart(t.head), fill |-> t.fill]
  ELSE Str(TrimEnd(TrimStart(t.head)))

(***************************************************************************)
(* The lines the writer of the model puts in the log.  The scans look a    *)
(* line up in tables computed once from these (the *Memo definitions) and  *)
(* fall back on the character-level definitions for any other string.      *)
(***************************************************************************)
StatePhrase == "Setting StudioGameStateType to StudioGameStateType_"

\* a short message in an error category
ErrorLine ==
  Str("2026-02-03T08:52:08.000Z,8.000,1000,9 [FLog::Error] Runtime error in script")

\* a message the exclusion filter drops, in an error category
NoiseLine ==
  Str("2026-02-03T08:52:01.000Z,1.000,1000,2 [FLog::Warning] Info: internal stuff")

\* two such lines fill the byte budget exactly when emitted bare
HalfLine ==
  Padded("2026-02-03T08:52:02.095Z,2.095,1996c,3 [FLog::Output] half ", 15994)

\* a line of the next day whose message alone is larger than the byte budget
HugeLine ==
  Padded("2026-02-04T00:00:00.000Z,86400.000,1996c,1234 [FLog::Output] huge ", 32000)

\* a transition marker of the state manager
PlayLine ==
  Str("2026-02-03T08:52:06.000Z,6.000,1000,7 [FLog::AssetDataModelManager] "
      \o StatePhrase \o "PlayServer")

\* a transition marker back to the edit state
EditLine ==
  Str("2026-02-03T08:52:12.000Z,12.000,1000,13 [FLog::AssetDataModelManager] "
      \o StatePhrase \o "Edit")

\* a transition marker whose label names neither a play nor an edit state
StandaloneLine ==
  Str("2026-02-03T08:52:14.000Z,14.000,1000,15 [FLog::AssetDataModelManager] "
      \o StatePhrase \o "Standalone")

\* a record whose timestamp carries no seconds: LOG_LINE_RE accepts it and
\* parseTimestamp does not
OddLine ==
  Str("2026-02-03T08:52Z,9.000,1000,10 [FLog::Error] Error at an odd clock")

\* a record of level Warning in a category that is not an error category
WarnLine ==
  Str("2026-02-03T08:52:04.244Z,4.244,12f4,5,Warning [FLog::Output] "
      \o "Warning message from user")

\* user output that quotes a transition of the state manager
SpoofLine ==
  Str("2026-02-03T08:52:10.000Z,10.000,1000,11 [FLog::Output] "
      \o "AssetDataModelManager: " \o StatePhrase \o "PlayServer")

\* the lines of the log under Spec: every filter has a line it drops
LineKinds == {ErrorLine, NoiseLine, PlayLine, HugeLine}

\* the lines of the log under SpecBudget: what fills the byte budget
BudgetKinds == {ErrorLine, HalfLine, HugeLine}

\* the lines of the log under SpecContext: every run-context, and a record
\* without a usable timestamp
ContextKinds == {ErrorLine, PlayLine, EditLine, StandaloneLine, OddLine}

\* the lines of the log under SpecErrors: an error by category, one by
\* level, an excluded one, a record that is no error and user output that
\* reads like one
ErrorKinds == {ErrorLine, WarnLine, NoiseLine, PlayLine, SpoofLine}

MemoLines == LineKinds \cup BudgetKinds \cup ContextKinds \cup ErrorKinds \cup {Str("")}

(***************************************************************************)
(* Exclusion filter (log-filter.mjs).  The one non-ASCII prefix of the     *)
(* source list (the localized auto-recovery notice) cannot be written in   *)
(* a TLA+ string; no ASCII message starts with it.                         *)
(***************************************************************************)
EXCLUDE_PREFIXES == <<
  "Info:", "RobloxGitHash:", "Studio Version:", "Studio Architecture:",
  "Server RobloxGitHash:", "Server Prefix:", "*******",
  "Creating PolicyContext", "BaseUrl:", "settingsUrl:", "Session GUID",
  "Machine GUID", "Studio Launch Intent", "Is Studio Configured",
  "Reflection::load", "setAssetFolder", "setExtraAssetFolder",
  "isSupportedInstallLocation", "preferredLocale", "systemLocale",
  "Studio D3D", "ESGamePerfMonitor", "ABTestFramework",
  "Loading Lua Ribbon", "TeamCreateWidget", "Web returned cloud plugins",
  "The MCP Studio plugin", "Flag ", "Evaluating deferred",
  "Auto-recovery file", "Started network server", "New connection from",
  "Disconnect from", "Connecting to", "Joining game", "! Joining game",
  "Player ", "sendMLCodeCompletionHttpRequest", "UpdateManager::",
  "Warning: Failed to apply StyleRule", "On child added called",
  "On child removed called", "Action " >>

EXCLUDE_CONTAINS == <<
  "referenced from Lua", "Redundant Flag ID", "Asset (Image)",
  "load failed:" >>

ExcludeRule(message) ==
  \/ ByteLength(message) = 0
  \/ ByteLength(Trim(message)) = 0
  \/ \E k \in 1..Len(EXCLUDE_PREFIXES) : StartsWith(message, EXCLUDE_PREFIXES[k])
  \/ \E k \in 1..Len(EXCLUDE_CONTAINS) : Includes(message, EXCLUDE_CONTAINS[k])

(***************************************************************************)
(* Line parser (log-utils.mjs).                                            *)
(***************************************************************************)
DEFAULT_CATEGORIES == <<"FLog::Output", "FLog::Warning", "FLog::Error">>

ERROR_CATEGORIES == <<"FLog::Warning", "FLog::Error", "DFLog::HttpTraceError">>

SeqIncludes(list, x) == \E k \in 1..Len(list) : list[k] = x

Digit == {"0", "1", "2", "3", "4", "5", "6", "7", "8", "9"}

LowerAlpha ==
  {"a", "b", "c", "d", "e", "f", "g", "h", "i", "j", "k", "l", "m",
   "n", "o", "p", "q", "r", "s", "t", "u", "v", "w", "x", "y", "z"}

UpperAlpha ==
  {"A", "B", "C", "D", "E", "F", "G", "H", "I", "J", "K", "L", "M",
   "N", "O", "P", "Q", "R", "S", "T", "U", "V", "W", "X", "Y", "Z"}

\* the regular-expression class \w
WordChar == Digit \cup LowerAlpha \cup UpperAlpha \cup {"_"}

\* the class [a-f0-9]
HexChar == Digit \cup {"a", "b", "c", "d", "e", "f"}

\* the class [\d:.]
ClockChar == Digit \cup {":", "."}

\* the class [\d.]
DecimalChar == Digit \cup {"."}

\* characters the regular-expression dot does not match
LineTerminator == {"\n", "\r"}

\* index just past the longest run of characters of class C starting at i
RECURSIVE SpanEnd(_, _, _)
SpanEnd(s, i, C) ==
  IF i <= Len(s) /\ CharAt(s, i) \in C THEN SpanEnd(s, i + 1, C) ELSE i

\* index just past the longest run of characters other than c starting at i
RECURSIVE SpanUntil(_, _, _)
SpanUntil(s, i, c) ==
  IF i <= Len(s) /\ CharAt(s, i) # c THEN SpanUntil(s, i + 1, c) ELSE i

AllIn(s, from, to, C) == \A k \in from..to : k <= Len(s) /\ CharAt(s, k) \in C

NoMatch == [matched |-> FALSE]

\* LOG_LINE_RE.exec(line): every quantified class of the expression is
\* followed by a character outside the class, so the greedy match is the
\* only candidate and the expression is matched left to right.
\*   ^(\d{4}-\d{2}-\d{2}T[\d:.]+Z),[\d.]+,[a-f0-9]+,\d+(?:,(\w+))?\s*\[([^\]]+)\]\s*(.*)$
LogLineMatch(line) ==
  LET s == line.head
      \* e1..e8: the index just past each quantified part, left to right
      Captured(e1, e2, e3, e4, e5, e6, e7, e8) ==
        LET hasLevel == CharAt(s, e4) = "," /\ e5 > e4 + 1
        IN IF /\ AllIn(s, 1, 4, Digit) /\ CharAt(s, 5) = "-"
              /\ AllIn(s, 6, 7, Digit) /\ CharAt(s, 8) = "-"
              /\ AllIn(s, 9, 10, Digit) /\ CharAt(s, 11) = "T"
              /\ e1 > 12 /\ CharAt(s, e1) = "Z" /\ CharAt(s, e1 + 1) = ","
              /\ e2 > e1 + 2 /\ CharAt(s, e2) = ","
              /\ e3 > e2 + 1 /\ CharAt(s, e3) = ","
              /\ e4 > e3 + 1
              /\ CharAt(s, e6) = "["
              /\ e7 > e6 + 1 /\ CharAt(s, e7) = "]"
              /\ \A k \in e8..Len(s) : CharAt(s, k) \notin LineTerminator
           THEN [matched |-> TRUE,
                 m1 |-> SubSeq(s, 1, e1),
                 m2 |-> IF hasLevel THEN SubSeq(s, e4 + 1, e5 - 1) ELSE "",
                 m3 |-> SubSeq(s, e6 + 1, e7 - 1),
                 m4 |-> [head |-> SubSeq(s, e8, Len(s)), fill |-> line.fill]]
           ELSE NoMatch
      Spaces(e1, e2, e3, e4, e5, e6, e7) ==
        Captured(e1, e2, e3, e4, e5, e6, e7, SpanEnd(s, e7 + 1, WhiteSpace))
      Category(e1, e2, e3, e4, e5, e6) ==
        Spaces(e1, e2, e3, e4, e5, e6, SpanUntil(s, e6 + 1, "]"))
      Bracket(e1, e2, e3, e4, e5) ==
        Category(e1, e2, e3, e4, e5,
                 SpanEnd(s, IF CharAt(s, e4) = "," /\ e5 > e4 + 1 THEN e5 ELSE e4,
                         WhiteSpace))
      Level(e1, e2, e3, e4) == Bracket(e1, e2, e3, e4, SpanEnd(s, e4 + 1, WordChar))
      Sequence(e1, e2, e3) == Level(e1, e2, e3, SpanEnd(s, e3 + 1, Digit))
      Thread(e1, e2) == Sequence(e1, e2, SpanEnd(s, e2 + 1, HexChar))
      Elapsed(e1) == Thread(e1, SpanEnd(s, e1 + 2, DecimalChar))
  IN Elapsed(SpanEnd(s, 12, ClockChar))

LogLineMemo == [l \in MemoLines |-> LogLineMatch(l)]

LOG_LINE_RE(line) ==
  LET Exec(memo) == IF line \in DOMAIN memo THEN memo[line] ELSE LogLineMatch(line)
  IN Exec(LogLineMemo)

MemoMessages == {m.m4 : m \in {r \in {LogLineMemo[l] : l \in MemoLines} : r.matched}}

ExcludeMemo == [m \in MemoMessages |-> ExcludeRule(m)]

shouldExclude(message) ==
  LET Test(memo) ==
        IF message \in DOMAIN memo THEN memo[message] ELSE ExcludeRule(message)
  IN Test(ExcludeMemo)

Null == [isNull |-> TRUE]

parseLogLine(line, lineNum) ==
  LET Entry(m) ==
        IF ~m.matched THEN Null
        ELSE [isNull |-> FALSE,
              lineNum |-> lineNum,
              timestamp |-> m.m1,
              level |-> IF m.m2 = "" THEN "Info" ELSE m.m2,
              category |-> m.m3,
              message |-> m.m4,
              raw |-> line,
              runContext |-> "unknown"]
  IN Entry(LOG_LINE_RE(line))

LowerOf(c) ==
  CASE c = "A" -> "a" [] c = "B" -> "b" [] c = "C" -> "c" [] c = "D" -> "d"
    [] c = "E" -> "e" [] c = "F" -> "f" [] c = "G" -> "g" [] c = "H" -> "h"
    [] c = "I" -> "i" [] c = "J" -> "j" [] c = "K" -> "k" [] c = "L" -> "l"
    [] c = "M" -> "m" [] c = "N" -> "n" [] c = "O" -> "o" [] c = "P" -> "p"
    [] c = "Q" -> "q" [] c = "R" -> "r" [] c = "S" -> "s" [] c = "T" -> "t"
    [] c = "U" -> "u" [] c = "V" -> "v" [] c = "W" -> "w" [] c = "X" -> "x"
    [] c = "Y" -> "y" [] c = "Z" -> "z" [] OTHER -> c

\* String.prototype.toLowerCase on a plain string
RECURSIVE ToLowerCase(_)
ToLowerCase(s) ==
  IF Len(s) = 0 THEN ""
  ELSE LowerOf(CharAt(s, 1)) \o ToLowerCase(SubSeq(s, 2, Len(s)))

(***************************************************************************)
(* Timestamp utilities.  An instant (a Date) is the pair                   *)
(* <<days since 1970-01-01, milliseconds into that day>>, which orders as  *)
(* the millisecond count does and keeps every number within 32 bits.       *)
(***************************************************************************)
DigitVal(c) ==
  CASE c = "0" -> 0 [] c = "1" -> 1 [] c = "2" -> 2 [] c = "3" -> 3
    [] c = "4" -> 4 [] c = "5" -> 5 [] c = "6" -> 6 [] c = "7" -> 7
    [] c = "8" -> 8 [] c = "9" -> 9

\* unary plus on a string of decimal digits
RECURSIVE ToNumber(_)
ToNumber(s) ==
  IF Len(s) = 0 THEN 0
  ELSE 10 * ToNumber(SubSeq(s, 1, Len(s) - 1)) + DigitVal(CharAt(s, Len(s)))

MsPerDay == 86400000

\* days from 1970-01-01 to the first day of month index m (0..11) of year y
DayFromYearMonth(y, m) ==
  LET yy  == IF m < 2 THEN y - 1 ELSE y
      era == yy \div 400
      yoe == yy - era * 400
      mp  == IF m < 2 THEN m + 10 ELSE m - 2
      doy == (153 * mp + 2) \div 5
      doe == yoe * 365 + yoe \div 4 - yoe \div 100 + doy
  IN era * 146097 + doe - 719468

\* Date.UTC(y, monthIndex, d, h, mi, s, ms), out-of-range fields carried over
DateUTC(y, monthIndex, d, h, mi, s, ms) ==
  LET yr  == IF 0 <= y /\ y <= 99 THEN 1900 + y ELSE y
      ym  == yr + monthIndex \div 12
      mn  == monthIndex % 12
      tod == h * 3600000 + mi * 60000 + s * 1000 + ms
  IN << DayFromYearMonth(ym, mn) + (d - 1) + tod \div MsPerDay, tod % MsPerDay >>

\* Date.prototype.getUTCFullYear / getUTCMonth / getUTCDate
UTCFields(date) ==
  LET z   == date[1] + 719468
      era == z \div 146097
      doe == z - era * 146097
      yoe == (doe - doe \div 1460 + doe \div 36524 - doe \div 146096) \div 365
      doy == doe - (365 * yoe + yoe \div 4 - yoe \div 100)
      mp  == (5 * doy + 2) \div 153
      m   == IF mp < 10 THEN mp + 2 ELSE mp - 10
  IN [year  |-> yoe + era * 400 + (IF m < 2 THEN 1 ELSE 0),
      month |-> m,
      date  |-> doy - (153 * mp + 2) \div 5 + 1]

\* faulty variant of DateBefore: an equal instant counts as earlier
DateBefore_OrEqual(a, b) == a[1] < b[1] \/ (a[1] = b[1] /\ a[2] <= b[2])

DateBefore(a, b) == a[1] < b[1] \/ (a[1] = b[1] /\ a[2] < b[2])

\* the shape ^(\d{4})-(\d{2})-(\d{2}) at the start of s
DateShape(s) ==
  /\ AllIn(s, 1, 4, Digit) /\ CharAt(s, 5) = "-"
  /\ AllIn(s, 6, 7, Digit) /\ CharAt(s, 8) = "-"
  /\ AllIn(s, 9, 10, Digit)

\* the shape T(\d{2}):(\d{2}):(\d{2}) at positions 11..19 of s
TimeShape(s) ==
  /\ CharAt(s, 11) = "T"
  /\ AllIn(s, 12, 13, Digit) /\ CharAt(s, 14) = ":"
  /\ AllIn(s, 15, 16, Digit) /\ CharAt(s, 17) = ":"
  /\ AllIn(s, 18, 19, Digit)

\* +ms.slice(0, 3).padEnd(3, "0")
MillisOf(ms) ==
  LET cut == SubSeq(ms, 1, Min(3, Len(ms)))
  IN ToNumber(cut \o Repeat("0", 3 - Len(cut)))

NullDate == <<>>

parseTimestamp(str) ==
  LET n == Len(str)
      \* the four formats, tried in order, given the shapes found in str
      Formats(date, time, y, mo, d, h, mi, s) ==
        IF n = 0 THEN NullDate
        ELSE IF /\ date /\ time /\ CharAt(str, 20) = "."
                /\ n >= 22 /\ AllIn(str, 21, n - 1, Digit) /\ CharAt(str, n) = "Z"
          THEN DateUTC(y, mo - 1, d, h, mi, s, MillisOf(SubSeq(str, 21, n - 1)))
        ELSE IF date /\ time /\ n = 20 /\ CharAt(str, 20) = "Z"
          THEN DateUTC(y, mo - 1, d, h, mi, s, 0)
        ELSE IF date /\ time /\ n = 19
          THEN DateUTC(y, mo - 1, d, h, mi, s, 0)
        ELSE IF date /\ n = 10
          THEN DateUTC(y, mo - 1, d, 0, 0, 0, 0)
        ELSE NullDate
  IN Formats(DateShape(str), TimeShape(str),
             ToNumber(SubSeq(str, 1, 4)), ToNumber(SubSeq(str, 6, 7)),
             ToNumber(SubSeq(str, 9, 10)), ToNumber(SubSeq(str, 12, 13)),
             ToNumber(SubSeq(str, 15, 16)), ToNumber(SubSeq(str, 18, 19)))

\* faulty variant of isTimestampInRange: a timestamp that does not parse
\* passes
isTimestampInRange_FailOpen(timestamp, startDate, endDate) ==
  LET EndOfDay(f) == DateUTC(f.year, f.month, f.date, 23, 59, 59, 999)
      InRange(ts, start, end) ==
        IF startDate = "" /\ endDate = "" THEN TRUE
        ELSE IF ts = NullDate THEN TRUE
        ELSE IF startDate # "" /\ start # NullDate /\ DateBefore(ts, start) THEN FALSE
        ELSE IF /\ endDate # "" /\ end # NullDate
                /\ DateBefore(IF Len(endDate) = 10 THEN EndOfDay(UTCFields(end)) ELSE end,
                              ts) THEN FALSE
        ELSE TRUE
  IN InRange(parseTimestamp(timestamp), parseTimestamp(startDate),
             parseTimestamp(endDate))

\* startDate and endDate are strings of a caller, "" standing for null
isTimestampInRange(timestamp, startDate, endDate) ==
  LET EndOfDay(f) == DateUTC(f.year, f.month, f.date, 23, 59, 59, 999)
      InRange(ts, start, end) ==
        IF startDate = "" /\ endDate = "" THEN TRUE
        ELSE IF ts = NullDate THEN FALSE
        ELSE IF startDate # "" /\ start # NullDate /\ DateBefore(ts, start) THEN FALSE
        ELSE IF /\ endDate # "" /\ end # NullDate
                /\ DateBefore(IF Len(endDate) = 10 THEN EndOfDay(UTCFields(end)) ELSE end,
                              ts) THEN FALSE
        ELSE TRUE
  IN InRange(parseTimestamp(timestamp), parseTimestamp(startDate),
             parseTimestamp(endDate))

\* faulty variant of isErrorLog: the level is not looked at
isErrorLog_CategoryOnly(entry) == SeqIncludes(ERROR_CATEGORIES, entry.category)

isErrorLog(entry) ==
  \/ SeqIncludes(ERROR_CATEGORIES, entry.category)
  \/ LET lvl == ToLowerCase(entry.level)
     IN lvl = "warning" \/ lvl = "error"

(***************************************************************************)
(* Files.  The content of a file is a sequence of chunks whose             *)
(* concatenation is the text of the file: a chunk is either NL, the line   *)
(* feed, or a non-empty string without line feed that starts a line.  The  *)
(* path is "missing", a "dir" (it exists, reading it fails) or a "file".   *)
(***************************************************************************)
NL == Str("\n")

\* faulty variant of existsSync: the existence test always succeeds
existsSync_Always(path) == TRUE

existsSync(path) == path.kind # "missing"

\* readFileSync(path) raises unless the path is a regular file
readFails(path) == path.kind # "file"

\* content.split("\n")
RECURSIVE Split(_)
Split(content) ==
  IF content = <<>> THEN << Str("") >>
  ELSE IF Head(content) = NL THEN << Str("") >> \o Split(Tail(content))
  ELSE IF Len(content) = 1 THEN << content[1] >>
  ELSE << content[1] >> \o Split(SubSeq(content, 3, Len(content)))

\* lines.join("\n"), in the chunk representation
RECURSIVE Join(_)
Join(list) ==
  IF list = <<>> THEN <<>>
  ELSE (IF ByteLength(Head(list)) = 0 THEN <<>> ELSE << Head(list) >>)
       \o (IF Len(list) = 1 THEN <<>> ELSE << NL >> \o Join(Tail(list)))

RECURSIVE TextBytes(_)
TextBytes(chunks) ==
  IF chunks = <<>> THEN 0 ELSE ByteLength(Head(chunks)) + TextBytes(Tail(chunks))

\* a nullable value of the program: null, or the value v
NullVal == [isNull |-> TRUE, v |-> 0]

NullList == [isNull |-> TRUE, v |-> <<>>]

Val(x) == [isNull |-> FALSE, v |-> x]

Threw == [threw |-> TRUE]

Returned(x) == [threw |-> FALSE, value |-> x]

(***************************************************************************)
(* Run-context indexer.                                                    *)
(***************************************************************************)
\* STATE_RE matches at index i of the line: the phrase, then at least one \w
StateMatchAt(line, i) ==
  LET s == line.head
      j == i + Len(StatePhrase)
  IN /\ i + Len(StatePhrase) - 1 <= Len(s)
     /\ SubSeq(s, i, j - 1) = StatePhrase
     /\ \/ CharAt(s, j) \in WordChar
        \/ j = Len(s) + 1 /\ line.fill > 0 /\ FillChar \in WordChar

\* STATE_RE.exec(line): the leftmost match, m[1] the longest run of \w
StateMatch(line) ==
  LET s    == line.head
      hits == {i \in 1..Len(s) : StateMatchAt(line, i)}
      i0   == CHOOSE i \in hits : \A k \in hits : i <= k
      j    == i0 + Len(StatePhrase)
      e    == SpanEnd(s, j, WordChar)
  IN IF hits = {} THEN NoMatch
     ELSE [matched |-> TRUE,
           m1 |-> [head |-> SubSeq(s, j, e - 1),
                   fill |-> IF e > Len(s) /\ FillChar \in WordChar
                            THEN line.fill ELSE 0]]

\* what the indexer extracts from a line: line.includes("AssetDataModelManager")
\* and the match of STATE_RE
MarkerOf(line) ==
  IF Includes(line, "AssetDataModelManager") THEN StateMatch(line) ELSE NoMatch

MarkerMemo == [l \in MemoLines |-> MarkerOf(l)]

StateMarker(line) ==
  LET Exec(memo) == IF line \in DOMAIN memo THEN memo[line] ELSE MarkerOf(line)
  IN Exec(MarkerMemo)

\* faulty variant of ClosedRange: the closed range keeps the marker's line
ClosedRange_Overlapping(acc, lineNum, timestamp) ==
  [state |-> acc.currentState,
   startLine |-> acc.currentStartLine,
   endLine |-> lineNum,
   startTime |-> acc.currentStartTime,
   endTime |-> timestamp]

\* the range pushed when a transition is found at lineNum
ClosedRange(acc, lineNum, timestamp) ==
  [state |-> acc.currentState,
   startLine |-> acc.currentStartLine,
   endLine |-> lineNum - 1,
   startTime |-> acc.currentStartTime,
   endTime |-> timestamp]

RECURSIVE IndexLoop(_, _, _)
IndexLoop(lines, i, acc) ==
  LET lineNum == i
      \* one pass of the loop body: m is the marker found on the line,
      \* entry the line as parseLogLine reads it
      Pass(m, entry) ==
        LET timestamp == IF entry.isNull THEN "" ELSE entry.timestamp
        IN IF ~m.matched THEN acc
           ELSE [ranges |->
                   IF acc.currentStartLine > 0
                   THEN Append(acc.ranges, ClosedRange(acc, lineNum, timestamp))
                   ELSE acc.ranges,
                 currentState |-> m.m1,
                 currentStartLine |-> lineNum,
                 currentStartTime |-> timestamp]
  IN IF i > Len(lines) THEN acc
     ELSE IndexLoop(lines, i + 1,
                    Pass(StateMarker(lines[i]), parseLogLine(Trim(lines[i]), lineNum)))

\* the body of buildGameStateIndex once the file has been read
IndexOfContent(content) ==
  LET Close(acc) ==
        IF acc.currentStartLine > 0
        THEN Append(acc.ranges,
               [state |-> acc.currentState,
                startLine |-> acc.currentStartLine,
                endLine |-> -1,
                startTime |-> acc.currentStartTime,
                endTime |-> ""])
        ELSE acc.ranges
  IN Close(IndexLoop(Split(content), 1,
             [ranges |-> <<>>, currentState |-> Str("Edit"),
              currentStartLine |-> 1, currentStartTime |-> ""]))

buildGameStateIndex(path) ==
  IF ~existsSync(path) THEN Returned(<<>>)
  ELSE IF readFails(path) THEN Threw
  ELSE Returned(IndexOfContent(path.content))

ToLowerText(t) == [head |-> ToLowerCase(t.head), fill |-> t.fill]

\* faulty variant of RunContextLoop: the line of a marker is left to the
\* range before it
RECURSIVE RunContextLoop_MarkerBefore(_, _, _)
RunContextLoop_MarkerBefore(lineNum, stateRanges, k) ==
  IF k > Len(stateRanges) THEN "unknown"
  ELSE
    LET r     == stateRanges[k]
        state == ToLowerText(r.state)
    IN IF r.startLine <= lineNum /\ (r.endLine = -1 \/ lineNum <= r.endLine + 1)
       THEN IF Includes(state, "server") \/ Includes(state, "client") THEN "play"
            ELSE IF Includes(state, "edit") THEN "edit"
            ELSE RunContextLoop_MarkerBefore(lineNum, stateRanges, k + 1)
       ELSE RunContextLoop_MarkerBefore(lineNum, stateRanges, k + 1)

\* the first range containing lineNum that classifies decides
RECURSIVE RunContextLoop(_, _, _)
RunContextLoop(lineNum, stateRanges, k) ==
  IF k > Len(stateRanges) THEN "unknown"
  ELSE
    LET r     == stateRanges[k]
        state == ToLowerText(r.state)
    IN IF r.startLine <= lineNum /\ (r.endLine = -1 \/ lineNum <= r.endLine)
       THEN IF Includes(state, "server") \/ Includes(state, "client") THEN "play"
            ELSE IF Includes(state, "edit") THEN "edit"
            ELSE RunContextLoop(lineNum, stateRanges, k + 1)
       ELSE RunContextLoop(lineNum, stateRanges, k + 1)

getRunContextForLine(lineNum, stateRanges) == RunContextLoop(lineNum, stateRanges, 1)

(***************************************************************************)
(* Query engine.  An options record o carries afterLine, beforeLine        *)
(* (nullable numbers), startDate, endDate, runContext (strings, "" for     *)
(* null), categories (a nullable list), timestamps, applyFilter,           *)
(* includeContext (booleans) and, for findErrors, maxErrors.               *)
(***************************************************************************)
MAX_BYTES == 32000

\* str.slice(from, to) with 0 <= from <= to
Slice(s, from, to) == SubSeq(s, from + 1, Min(to, Len(s)))

ContextLabel(runContext) ==
  CASE runContext = "play" -> "[P]"
    [] runContext = "edit" -> "[E]"
    [] runContext = "unknown" -> "[?]"
    [] OTHER -> "[?]"

\* faulty variant of AfterLineSkips: the lower bound is inclusive
AfterLineSkips_Inclusive(o, lineNum) == ~o.afterLine.isNull /\ lineNum < o.afterLine.v

\* if (afterLine !== null && lineNum <= afterLine) continue
AfterLineSkips(o, lineNum) == ~o.afterLine.isNull /\ lineNum <= o.afterLine.v

\* faulty variant of BeforeLineStops: the upper bound is inclusive
BeforeLineStops_Inclusive(o, lineNum) == ~o.beforeLine.isNull /\ lineNum > o.beforeLine.v

\* if (beforeLine !== null && lineNum >= beforeLine) break
BeforeLineStops(o, lineNum) == ~o.beforeLine.isNull /\ lineNum >= o.beforeLine.v

\* faulty variant of ExclusionDrops: the applyFilter flag is not read
ExclusionDrops_Always(o, message) == shouldExclude(message)

\* faulty variant of ExclusionDrops: the applyFilter flag is read inverted
ExclusionDrops_Inverted(o, message) == ~o.applyFilter /\ shouldExclude(message)

\* if (applyFilter && shouldExclude(entry.message)) continue
ExclusionDrops(o, message) == o.applyFilter /\ shouldExclude(message)

\* faulty variant of ExceedsBudget: the budget is tested before the line
\* is added to it
ExceedsBudget_Late(acc, lineBytes) ==
  acc.currentBytes > MAX_BYTES /\ Len(acc.logLines) > 0

\* faulty variant of ExceedsBudget: no exception for the first line
ExceedsBudget_Strict(acc, lineBytes) ==
  acc.currentBytes + lineBytes > MAX_BYTES

\* if (currentBytes + lineBytes > MAX_BYTES && logLines.length > 0)
ExceedsBudget(acc, lineBytes) ==
  acc.currentBytes + lineBytes > MAX_BYTES /\ Len(acc.logLines) > 0

\* parts.join(" ") for the parts pushed before the message and the message
OutputLine(first, entry, o) ==
  LET p1 == first
      p2 == IF o.includeContext THEN p1 \o <<ContextLabel(entry.runContext)>> ELSE p1
      p3 == IF o.timestamps
            THEN p2 \o << "[" \o Slice(entry.timestamp, 11, 19) \o "]" >> ELSE p2
      RECURSIVE Lead(_)
      Lead(parts) == IF parts = <<>> THEN "" ELSE Head(parts) \o " " \o Lead(Tail(parts))
  IN [head |-> Lead(p3) \o entry.message.head, fill |-> entry.message.fill]

\* faulty variant of Filtered: the categories of the caller are ignored
Filtered_DefaultOnly(entry, lineNum, o, stateRanges) ==
  LET cats == DEFAULT_CATEGORIES
      ctx  == getRunContextForLine(lineNum, stateRanges)
  IN IF Len(cats) > 0 /\ ~SeqIncludes(cats, entry.category) THEN Null
     ELSE IF ExclusionDrops(o, entry.message) THEN Null
     ELSE IF /\ (o.startDate # "" \/ o.endDate # "")
             /\ ~isTimestampInRange(entry.timestamp, o.startDate, o.endDate) THEN Null
     ELSE IF o.runContext # "" \/ o.includeContext
       THEN IF o.runContext # "" /\ ctx # o.runContext THEN Null
            ELSE [entry EXCEPT !.runContext = ctx]
     ELSE entry

\* faulty variant of Filtered: the run-context labels the entry and never
\* drops it
Filtered_LabelOnly(entry, lineNum, o, stateRanges) ==
  LET cats == IF o.categories.isNull THEN DEFAULT_CATEGORIES ELSE o.categories.v
      ctx  == getRunContextForLine(lineNum, stateRanges)
  IN IF Len(cats) > 0 /\ ~SeqIncludes(cats, entry.category) THEN Null
     ELSE IF ExclusionDrops(o, entry.message) THEN Null
     ELSE IF /\ (o.startDate # "" \/ o.endDate # "")
             /\ ~isTimestampInRange(entry.timestamp, o.startDate, o.endDate) THEN Null
     ELSE IF o.runContext # "" \/ o.includeContext
       THEN [entry EXCEPT !.runContext = ctx]
     ELSE entry

\* the filters both text queries apply to a parsed entry, in source order;
\* the result is the entry with its run-context, or Null when it is skipped
Filtered(entry, lineNum, o, stateRanges) ==
  LET cats == IF o.categories.isNull THEN DEFAULT_CATEGORIES ELSE o.categories.v
      ctx  == getRunContextForLine(lineNum, stateRanges)
  IN IF Len(cats) > 0 /\ ~SeqIncludes(cats, entry.category) THEN Null
     ELSE IF ExclusionDrops(o, entry.message) THEN Null
     ELSE IF /\ (o.startDate # "" \/ o.endDate # "")
             /\ ~isTimestampInRange(entry.timestamp, o.startDate, o.endDate) THEN Null
     ELSE IF o.runContext # "" \/ o.includeContext
       THEN IF o.runContext # "" /\ ctx # o.runContext THEN Null
            ELSE [entry EXCEPT !.runContext = ctx]
     ELSE entry

\* faulty variant of Emit: once the budget is exceeded the matches are no
\* longer counted
Emit_Uncounted(acc, lineNum, outputLine) ==
  LET counted   == [acc EXCEPT !.remaining = @ + 1]
      lineBytes == ByteLength(outputLine) + 1
  IN IF acc.bytesExceeded THEN acc
     ELSE IF acc.currentBytes + lineBytes > MAX_BYTES /\ Len(acc.logLines) > 0
       THEN [counted EXCEPT !.bytesExceeded = TRUE]
     ELSE [counted EXCEPT
             !.startLine = IF @.isNull THEN Val(lineNum) ELSE @,
             !.logLines = Append(@, outputLine),
             !.emitted = Append(@, lineNum),
             !.lastLine = lineNum,
             !.currentBytes = @ + lineBytes]

\* faulty variant of Emit: a line that overflows the budget is skipped and
\* emission goes on with the lines after it
Emit_Resumes(acc, lineNum, outputLine) ==
  LET counted   == [acc EXCEPT !.remaining = @ + 1]
      lineBytes == ByteLength(outputLine) + 1
  IN IF acc.currentBytes + lineBytes > MAX_BYTES /\ Len(acc.logLines) > 0
       THEN counted
     ELSE [counted EXCEPT
             !.startLine = IF @.isNull THEN Val(lineNum) ELSE @,
             !.logLines = Append(@, outputLine),
             !.emitted = Append(@, lineNum),
             !.lastLine = lineNum,
             !.currentBytes = @ + lineBytes]

\* faulty variant of Emit: lastLine follows every counted line, emitted or not
Emit_LastCounted(acc, lineNum, outputLine) ==
  LET counted   == [acc EXCEPT !.remaining = @ + 1, !.lastLine = lineNum]
      lineBytes == ByteLength(outputLine) + 1
  IN IF acc.bytesExceeded THEN counted
     ELSE IF acc.currentBytes + lineBytes > MAX_BYTES /\ Len(acc.logLines) > 0
       THEN [counted EXCEPT !.bytesExceeded = TRUE]
     ELSE [counted EXCEPT
             !.startLine = IF @.isNull THEN Val(lineNum) ELSE @,
             !.logLines = Append(@, outputLine),
             !.emitted = Append(@, lineNum),
             !.currentBytes = @ + lineBytes]

\* lines 1968-1991 and 2068-2091: count the match and emit it within budget
Emit(acc, lineNum, outputLine) ==
  LET counted   == [acc EXCEPT !.remaining = @ + 1]
      lineBytes == ByteLength(outputLine) + 1
  IN IF acc.bytesExceeded THEN counted
     ELSE IF ExceedsBudget(acc, lineBytes)
       THEN [counted EXCEPT !.bytesExceeded = TRUE]
     ELSE [counted EXCEPT
             !.startLine = IF @.isNull THEN Val(lineNum) ELSE @,
             !.logLines = Append(@, outputLine),
             !.emitted = Append(@, lineNum),
             !.lastLine = lineNum,
             !.currentBytes = @ + lineBytes]

ScanStart ==
  [startLine |-> NullVal, lastLine |-> 0, currentBytes |-> 0, logLines |-> <<>>,
   remaining |-> 0, bytesExceeded |-> FALSE, emitted |-> <<>>]

\* the loop of getLogsFromLine
RECURSIVE ReadLoop(_, _, _, _, _)
ReadLoop(lines, i, o, stateRanges, acc) ==
  LET lineNum == i
      Kept(kept) ==
        IF kept.isNull THEN acc
        ELSE Emit(acc, lineNum, OutputLine(<<>>, kept, o))
      Parsed(entry) ==
        IF entry.isNull THEN acc
        ELSE Kept(Filtered(entry, lineNum, o, stateRanges))
      \* the loop body from the trimmed line on
      Pass(line) ==
        IF ByteLength(line) = 0 THEN acc ELSE Parsed(parseLogLine(line, lineNum))
  IN IF i > Len(lines) THEN acc
     ELSE IF AfterLineSkips(o, lineNum) THEN ReadLoop(lines, i + 1, o, stateRanges, acc)
     ELSE IF BeforeLineStops(o, lineNum) THEN acc
     ELSE ReadLoop(lines, i + 1, o, stateRanges, Pass(Trim(lines[i])))

EmptyLogs ==
  [logs |-> <<>>, startLine |-> 0, lastLine |-> 0, remaining |-> 0,
   hasMore |-> FALSE, emitted |-> <<>>]

\* getLogsFromLine with what its two reads of the file see: `indexed` is the
\* file as existsSync and the readFileSync of buildGameStateIndex find it,
\* `path` as the readFileSync of the scan does.  The result carries the
\* fields of the source and, as bookkeeping of the model, `emitted`: the
\* line numbers pushed along with logLines
LogsFromReads(indexed, path, o) ==
  LET Result(acc) ==
        [logs |-> Join(acc.logLines),
         startLine |-> IF acc.startLine.isNull THEN 0 ELSE acc.startLine.v,
         lastLine |-> acc.lastLine,
         remaining |-> acc.remaining - Len(acc.logLines),
         hasMore |-> acc.remaining > Len(acc.logLines),
         emitted |-> acc.emitted]
      Scan(index) ==
        IF index.threw THEN Threw
        ELSE IF readFails(path) THEN Threw
        ELSE Returned(Result(ReadLoop(Split(path.content), 1, o, index.value, ScanStart)))
  IN IF ~existsSync(indexed) THEN Returned(EmptyLogs)
     ELSE Scan(IF o.runContext # "" \/ o.includeContext
               THEN buildGameStateIndex(indexed) ELSE Returned(<<>>))

\* a call during which the file is not written to: both reads see the same
getLogsFromLine(path, o) == LogsFromReads(path, path, o)

getLogsByDate(path, o) ==
  getLogsFromLine(path, [o EXCEPT !.afterLine = NullVal, !.beforeLine = NullVal])

\* characters with a meaning of their own in a regular expression
RegExpSyntaxChar ==
  {"\\", "^", "$", ".", "*", "+", "?", "(", ")", "[", "]", "{", "}", "|"}

\* new RegExp(pattern, "i") for patterns made of ordinary characters,
\* escaped syntax characters, and the two malformed shapes "[" without "]"
\* and "(" without ")", which raise SyntaxError as does a trailing "\".
\* Other patterns are outside the model (the CASE has no arm for them).
RECURSIVE RegExpCompile(_, _, _)
RegExpCompile(pattern, i, literal) ==
  LET c == CharAt(pattern, i)
  IN CASE i > Len(pattern) -> [ok |-> TRUE, literal |-> literal]
       [] i <= Len(pattern) /\ c \notin RegExpSyntaxChar ->
            RegExpCompile(pattern, i + 1, literal \o c)
       [] c = "\\" /\ i = Len(pattern) -> [ok |-> FALSE]
       [] c = "\\" /\ CharAt(pattern, i + 1) \in RegExpSyntaxChar ->
            RegExpCompile(pattern, i + 2, literal \o CharAt(pattern, i + 1))
       [] c = "[" /\ SpanUntil(pattern, i + 1, "]") > Len(pattern) -> [ok |-> FALSE]
       [] c = "(" /\ SpanUntil(pattern, i + 1, ")") > Len(pattern) -> [ok |-> FALSE]

\* faulty variant of InvalidPattern: the catch returns the empty result
InvalidPattern_Empty(pattern) ==
  [logs |-> <<>>, startLine |-> 0, lastLine |-> 0, matchCount |-> 0,
   remaining |-> 0, hasMore |-> FALSE, emitted |-> <<>>]

\* the result of searchLogsFromLine for a pattern that does not compile
InvalidPattern(pattern) == [error |-> "Invalid regex pattern: " \o pattern]

\* faulty variant of RegExpTest: the test is case-sensitive
RegExpTest_CaseSensitive(regex, message) == Includes(message, regex.literal)

\* regex.test(message) for a compiled literal under the "i" flag
RegExpTest(regex, message) ==
  Includes(ToLowerText(message), ToLowerCase(regex.literal))

\* the loop of searchLogsFromLine; acc.remaining is the source's matchCount
RECURSIVE SearchLoop(_, _, _, _, _, _)
SearchLoop(lines, i, regex, o, stateRanges, acc) ==
  LET lineNum == i
      Kept(kept) ==
        IF kept.isNull THEN acc
        ELSE IF ~RegExpTest(regex, kept.message) THEN acc
        ELSE Emit(acc, lineNum, OutputLine(<<ToString(lineNum) \o "|">>, kept, o))
      Parsed(entry) ==
        IF entry.isNull THEN acc
        ELSE Kept(Filtered(entry, lineNum, o, stateRanges))
      \* the loop body from the trimmed line on
      Pass(line) ==
        IF ByteLength(line) = 0 THEN acc ELSE Parsed(parseLogLine(line, lineNum))
  IN IF i > Len(lines) THEN acc
     ELSE IF AfterLineSkips(o, lineNum)
       THEN SearchLoop(lines, i + 1, regex, o, stateRanges, acc)
     ELSE IF BeforeLineStops(o, lineNum) THEN acc
     ELSE SearchLoop(lines, i + 1, regex, o, stateRanges, Pass(Trim(lines[i])))

EmptySearch ==
  [logs |-> <<>>, startLine |-> 0, lastLine |-> 0, matchCount |-> 0,
   remaining |-> 0, hasMore |-> FALSE, emitted |-> <<>>]

searchLogsFromLine(path, pattern, o) ==
  LET Result(acc) ==
        [logs |-> Join(acc.logLines),
         startLine |-> IF acc.startLine.isNull THEN 0 ELSE acc.startLine.v,
         lastLine |-> acc.lastLine,
         matchCount |-> Len(acc.logLines),
         remaining |-> acc.remaining - Len(acc.logLines),
         hasMore |-> acc.remaining > Len(acc.logLines),
         emitted |-> acc.emitted]
      Scan(regex, index) ==
        IF index.threw THEN Threw
        ELSE IF readFails(path) THEN Threw
        ELSE Returned(Result(SearchLoop(Split(path.content), 1, regex, o,
                                        index.value, ScanStart)))
      Compiled(regex) ==
        IF ~regex.ok THEN Returned(InvalidPattern(pattern))
        ELSE Scan(regex, IF o.runContext # "" \/ o.includeContext
                         THEN buildGameStateIndex(path) ELSE Returned(<<>>))
  IN IF ~existsSync(path) THEN Returned(EmptySearch)
     ELSE Compiled(RegExpCompile(pattern, 1, ""))

\* faulty variant of BelowCap: one error too many is kept
BelowCap_OffByOne(errors, o) == Len(errors) <= o.maxErrors

\* if (errors.length < maxErrors) errors.push(...)
BelowCap(errors, o) == Len(errors) < o.maxErrors

\* the loop of findErrors
RECURSIVE ErrorLoop(_, _, _, _, _)
ErrorLoop(lines, i, o, stateRanges, acc) ==
  LET lineNum == i
      ctx == IF Len(stateRanges) > 0
             THEN getRunContextForLine(lineNum, stateRanges) ELSE "unknown"
      Parsed(entry) ==
        IF entry.isNull THEN acc
        ELSE IF ~isErrorLog(entry) THEN acc
        ELSE IF shouldExclude(entry.message) THEN acc
        ELSE IF /\ (o.startDate # "" \/ o.endDate # "")
                /\ ~isTimestampInRange(entry.timestamp, o.startDate, o.endDate)
          THEN acc
        ELSE IF Len(stateRanges) > 0 /\ o.runContext # "" /\ ctx # o.runContext
          THEN acc
        ELSE [totalErrors |-> acc.totalErrors + 1,
              errors |->
                IF BelowCap(acc.errors, o)
                THEN Append(acc.errors,
                       [line |-> lineNum,
                        timestamp |-> entry.timestamp,
                        message |-> entry.message,
                        category |-> entry.category,
                        level |-> entry.level,
                        context |-> ctx])
                ELSE acc.errors]
      \* the loop body from the trimmed line on
      Pass(line) ==
        IF ByteLength(line) = 0 THEN acc ELSE Parsed(parseLogLine(line, lineNum))
  IN IF i > Len(lines) THEN acc
     ELSE IF AfterLineSkips(o, lineNum) THEN ErrorLoop(lines, i + 1, o, stateRanges, acc)
     ELSE IF BeforeLineStops(o, lineNum) THEN acc
     ELSE ErrorLoop(lines, i + 1, o, stateRanges, Pass(Trim(lines[i])))

EmptyErrors == [hasError |-> FALSE, errorCount |-> 0, errors |-> <<>>]

findErrors(path, o) ==
  LET Result(acc) ==
        [hasError |-> acc.totalErrors > 0,
         errorCount |-> acc.totalErrors,
         errors |-> acc.errors]
      Scan(index) ==
        IF index.threw THEN Threw
        ELSE IF readFails(path) THEN Threw
        ELSE Returned(Result(ErrorLoop(Split(path.content), 1, o, index.value,
                                       [totalErrors |-> 0, errors |-> <<>>])))
  IN IF ~existsSync(path) THEN Returned(EmptyErrors)
     ELSE Scan(IF o.runContext # "" THEN buildGameStateIndex(path) ELSE Returned(<<>>))

(***************************************************************************)
(* The side-index of studio-manager.mjs (.mcp_log_index.json): what was    *)
(* extracted from a log file, kept with the modification time of the file. *)
(* The model holds the entry of one log file.                              *)
(***************************************************************************)
\* no text: null, or a property that is not there
NullText == [isNull |-> TRUE, v |-> Str("")]

\* the header line that announces the command line of Studio
CmdHeaderLine ==
  Str("2026-01-01T00:00:00.000Z,0.000,1000,1 [FLog::Init] Command line:")

\* the command line of Studio
CmdLine ==
  Str("/Applications/RobloxStudio.app/Contents/MacOS/RobloxStudioBeta -placeId 999")

\* the record of the place file Studio opens
OpenLine ==
  Str("2026-01-01T00:00:00.001Z,0.001,1000,2 [FLog::FileOpenEventHandler] "
      \o "Trying to open local file /Users/test/game.rbxl")

\* the lines of the log under SpecIndex
IndexKinds == {CmdHeaderLine, CmdLine, OpenLine}

\* statSync(logPath).mtimeMs: the log is only appended to and every append
\* moves its modification time on
mtimeMs(path) == Len(path.content)

\* the first of the first 30 lines that names Studio and comes after a line
\* with "Command line:"; null when there is none or the file cannot be read
getLogCommandLineRaw(path) ==
  LET First(lines, hits) ==
        IF hits = {} THEN NullText
        ELSE [isNull |-> FALSE,
              v |-> Trim(lines[CHOOSE i \in hits : \A k \in hits : i <= k])]
      Scan(lines) ==
        First(lines,
          {i \in 1..Min(Len(lines), 30) :
             /\ ~Includes(Trim(lines[i]), "Command line:")
             /\ \/ Includes(Trim(lines[i]), "RobloxStudioBeta")
                \/ Includes(Trim(lines[i]), "RobloxStudio")
             /\ \E j \in 1..(i - 1) : Includes(Trim(lines[j]), "Command line:")})
  IN IF readFails(path) THEN NullText ELSE Scan(Split(path.content))

\* match[1].trim() of the first of the first 200 lines that matches
\* /\[FLog::FileOpenEventHandler\] Trying to open local file (.+)/
getLogPlacePathRaw(path) ==
  LET phrase == "[FLog::FileOpenEventHandler] Trying to open local file "
      At(line) ==
        {i \in 1..Len(line.head) :
           /\ i + Len(phrase) - 1 <= Len(line.head)
           /\ SubSeq(line.head, i, i + Len(phrase) - 1) = phrase
           /\ i + Len(phrase) <= Len(line.head) \/ line.fill > 0}
      Rest(line, hits) ==
        [head |-> SubSeq(line.head,
                         (CHOOSE i \in hits : \A k \in hits : i <= k) + Len(phrase),
                         Len(line.head)),
         fill |-> line.fill]
      First(lines, hits) ==
        IF hits = {} THEN NullText
        ELSE LET Match(line) == [isNull |-> FALSE, v |-> Trim(Rest(line, At(line)))]
             IN Match(lines[CHOOSE i \in hits : \A k \in hits : i <= k])
      Scan(lines) ==
        First(lines, {i \in 1..Min(Len(lines), 200) : At(lines[i]) # {}})
  IN IF readFails(path) THEN NullText ELSE Scan(Split(path.content))

\* the side-index without an entry for the log file
NoLogIndex ==
  [present |-> FALSE, mtime |-> 0,
   hasCmdline |-> FALSE, cmdline |-> NullText,
   hasPlacePath |-> FALSE, placePath |-> NullText]

\* getLogPlacePath: the place path and the side-index it leaves
getLogPlacePath(path, index) ==
  IF ~existsSync(path) THEN [index |-> index, value |-> NullText]
  ELSE IF index.present /\ index.mtime = mtimeMs(path) /\ index.hasPlacePath
    THEN [index |-> index, value |-> index.placePath]
  ELSE LET Store(placePath) ==
             [index |-> [index EXCEPT !.present = TRUE,
                                      !.mtime = mtimeMs(path),
                                      !.hasPlacePath = TRUE,
                                      !.placePath = placePath],
              value |-> placePath]
       IN Store(getLogPlacePathRaw(path))

\* getAllLogCmdlines([logPath]): result[logPath], null when the result has
\* no such key, and the side-index it leaves
getAllLogCmdlines(path, index) ==
  IF ~existsSync(path) THEN [index |-> index, value |-> NullText]
  ELSE IF index.present /\ index.mtime = mtimeMs(path)
    THEN [index |-> index,
          value |-> IF index.hasCmdline THEN index.cmdline ELSE NullText]
  ELSE LET Store(cmdline) ==
             [index |-> [present |-> TRUE, mtime |-> mtimeMs(path),
                         hasCmdline |-> TRUE, cmdline |-> cmdline,
                         hasPlacePath |-> FALSE, placePath |-> NullText],
              value |-> cmdline]
       IN Store(getLogCommandLineRaw(path))

(***************************************************************************)
(* The state machine: one log path, its writer, and the callers of the     *)
(* query operations.  `call` and `result` hold the latest query and what   *)
(* it returned; `prior` holds the query before it when the latest one is   *)
(* its continuation.  A write to the file clears them.  `logIndex` is the  *)
(* entry of the log file in the side-index on disk.                        *)
(***************************************************************************)
VARIABLES path, call, result, prior, logIndex

vars == <<path, call, result, prior, logIndex>>

\* bound on the number of lines of the log file
MaxLines == 3

DefaultOptions ==
  [afterLine |-> NullVal, beforeLine |-> NullVal, startDate |-> "", endDate |-> "",
   timestamps |-> FALSE, categories |-> NullList, applyFilter |-> TRUE,
   runContext |-> "", includeContext |-> FALSE, maxErrors |-> 100]

\* every combination of option values the callers pass under Spec
AllOptions ==
  [afterLine : {NullVal, Val(1)},
   beforeLine : {NullVal, Val(MaxLines)},
   startDate : {"", "2026-02-03T08:52:05"},
   endDate : {"", "2026-02-03"},
   timestamps : BOOLEAN,
   categories : {NullList, Val(<<>>), Val(<<"FLog::Error">>)},
   applyFilter : BOOLEAN,
   runContext : {"", "play", "edit"},
   includeContext : BOOLEAN,
   maxErrors : {-1, 1, 2, 100}]

\* the number of options of o that differ from their defaults
NonDefault(o) == Cardinality({f \in DOMAIN o : o[f] # DefaultOptions[f]})

ReadOptions == {o \in AllOptions : o.maxErrors = 100 /\ NonDefault(o) <= 2}

SearchOptions == {o \in AllOptions : o.maxErrors = 100 /\ NonDefault(o) <= 1}

ErrorOptions ==
  {o \in AllOptions :
     /\ ~o.timestamps /\ o.categories.isNull /\ o.applyFilter /\ ~o.includeContext
     /\ NonDefault(o) <= (IF o.maxErrors = 100 THEN 1 ELSE 2)}

\* getLogsByDate takes no line bounds and defaults timestamps to true
DateOptions ==
  {o \in AllOptions :
     /\ o.maxErrors = 100 /\ o.afterLine.isNull /\ o.beforeLine.isNull
     /\ o.timestamps /\ NonDefault(o) <= 2}

\* bound on the number of lines of the log file under SpecBudget
MaxBudgetLines == 3

\* the options under SpecBudget: every cursor, and what lengthens a line
BudgetOptions ==
  { [DefaultOptions EXCEPT !.afterLine = a, !.beforeLine = b,
                           !.timestamps = t, !.includeContext = ic]
      : a \in {NullVal} \cup {Val(n) : n \in 0..(MaxBudgetLines - 1)},
        b \in {NullVal, Val(MaxBudgetLines)},
        t \in BOOLEAN, ic \in BOOLEAN }

\* bound on the number of lines of the log file under SpecContext
MaxContextLines == 3

\* the options under SpecContext: the run-context filter and label, and the
\* date bounds
ContextOptions ==
  {o \in AllOptions :
     /\ o.afterLine.isNull /\ o.beforeLine.isNull /\ ~o.timestamps
     /\ o.categories.isNull /\ o.applyFilter /\ o.maxErrors = 100
     /\ NonDefault(o) <= 2}

BudgetPatterns == {"ERROR", "h"}

Patterns == {"ERROR", "h", "[invalid"}

NoCall == [op |-> "none", o |-> DefaultOptions, pattern |-> "", lineNum |-> 0, timestamp |-> ""]

NoResult == [threw |-> FALSE, value |-> [none |-> TRUE]]

NoPrior == [isNull |-> TRUE]

LineCount(content) == Len(Split(content))

AtLineStart(content) ==
  IF content = <<>> THEN TRUE ELSE content[Len(content)] = NL

Init ==
  /\ path = [kind |-> "missing", content |-> <<>>]
  /\ call = NoCall
  /\ result = NoResult
  /\ prior = NoPrior
  /\ logIndex = NoLogIndex

\* queries run one at a time: none is outstanding
Idle == call.op = "none"

Cleared == call' = NoCall /\ result' = NoResult /\ prior' = NoPrior

\* Studio creates its log file
CreateFile ==
  /\ path.kind = "missing"
  /\ path' = [kind |-> "file", content |-> <<>>]
  /\ Cleared
  /\ UNCHANGED logIndex

\* the path names a directory: it exists and cannot be read
MakeDirectory ==
  /\ path.kind = "missing"
  /\ path' = [kind |-> "dir", content |-> <<>>]
  /\ Cleared
  /\ UNCHANGED logIndex

\* the writer appends the text of a line at the start of a line
WriteLine(l) ==
  /\ path.kind = "file"
  /\ AtLineStart(path.content)
  /\ path' = [path EXCEPT !.content = Append(@, l)]
  /\ Cleared
  /\ UNCHANGED logIndex

\* the writer appends a line feed
WriteNewline(limit) ==
  /\ path.kind = "file"
  /\ LineCount(path.content) < limit
  /\ path' = [path EXCEPT !.content = Append(@, NL)]
  /\ Cleared
  /\ UNCHANGED logIndex

GetLogsFromLine(o) ==
  /\ Idle
  /\ call' = [op |-> "getLogsFromLine", o |-> o, pattern |-> "", lineNum |-> 0, timestamp |-> ""]
  /\ result' = getLogsFromLine(path, o)
  /\ prior' = NoPrior
  /\ UNCHANGED <<path, logIndex>>

\* the documented continuation: the same query again, afterLine = lastLine
ContinueLogs ==
  /\ call.op = "getLogsFromLine"
  /\ ~result.threw
  /\ LET o == [call.o EXCEPT !.afterLine = Val(result.value.lastLine)]
     IN /\ call' = [call EXCEPT !.o = o]
        /\ result' = getLogsFromLine(path, o)
  /\ prior' = [isNull |-> FALSE, o |-> call.o, value |-> result.value]
  /\ UNCHANGED <<path, logIndex>>

\* the latest getLogsFromLine result says that more lines are left
DrainPending ==
  /\ call.op = "getLogsFromLine"
  /\ ~result.threw
  /\ result.value.hasMore

\* incremental reading to the end: while hasMore is true the caller repeats
\* the query with afterLine = lastLine; prior keeps the options of the first
\* call and the lines emitted by the calls before the latest
DrainLogs ==
  /\ DrainPending
  /\ LET o == [call.o EXCEPT !.afterLine = Val(result.value.lastLine)]
     IN /\ call' = [call EXCEPT !.o = o]
        /\ result' = getLogsFromLine(path, o)
  /\ prior' = IF prior.isNull
              THEN [isNull |-> FALSE, o |-> call.o, value |-> result.value]
              ELSE [prior EXCEPT !.value.emitted = @ \o result.value.emitted]
  /\ UNCHANGED <<path, logIndex>>

\* the caller drops the result of a reading that has no more lines
DrainDone ==
  /\ ~Idle
  /\ ~result.value.hasMore
  /\ Cleared
  /\ UNCHANGED <<path, logIndex>>

SearchLogsFromLine(pattern, o) ==
  /\ Idle
  /\ call' = [op |-> "searchLogsFromLine", o |-> o, pattern |-> pattern, lineNum |-> 0, timestamp |-> ""]
  /\ result' = searchLogsFromLine(path, pattern, o)
  /\ prior' = NoPrior
  /\ UNCHANGED <<path, logIndex>>

FindErrors(o) ==
  /\ Idle
  /\ call' = [op |-> "findErrors", o |-> o, pattern |-> "", lineNum |-> 0, timestamp |-> ""]
  /\ result' = findErrors(path, o)
  /\ prior' = NoPrior
  /\ UNCHANGED <<path, logIndex>>

GetLogsByDate(o) ==
  /\ Idle
  /\ call' = [op |-> "getLogsByDate", o |-> o, pattern |-> "", lineNum |-> 0, timestamp |-> ""]
  /\ result' = getLogsByDate(path, o)
  /\ prior' = NoPrior
  /\ UNCHANGED <<path, logIndex>>

BuildGameStateIndex ==
  /\ Idle
  /\ call' = [op |-> "buildGameStateIndex", o |-> DefaultOptions, pattern |-> "", lineNum |-> 0, timestamp |-> ""]
  /\ result' = buildGameStateIndex(path)
  /\ prior' = NoPrior
  /\ UNCHANGED <<path, logIndex>>

\* getRunContextForLine(lineNum, buildGameStateIndex(logPath))
GetRunContextForLine(lineNum) ==
  /\ Idle
  /\ call' = [op |-> "getRunContextForLine", o |-> DefaultOptions, pattern |-> "",
              lineNum |-> lineNum, timestamp |-> ""]
  /\ LET Resolve(index) ==
           IF index.threw THEN Threw
           ELSE Returned(getRunContextForLine(lineNum, index.value))
     IN result' = Resolve(buildGameStateIndex(path))
  /\ prior' = NoPrior
  /\ UNCHANGED <<path, logIndex>>

\* the dates, clocks and fractions of a second the timestamps and date
\* bounds under SpecTime are made of
TimeDates == {"2026-02-28", "2026-03-01", "2027-01-01"}

TimeClocks == {"00:00:00", "08:52:05", "23:59:59"}

TimeFractions == {"", ".000", ".5", ".9997"}

\* record timestamps: every shape parseTimestamp reads with a Z, one it
\* does not read, and the missing one
Timestamps ==
  {d \o "T" \o c \o f \o "Z" : d \in TimeDates, c \in TimeClocks, f \in TimeFractions}
    \cup {"2026-03-01T08:52Z", ""}

\* date bounds of a caller: none, a bare date, a date and clock, and one
\* that is not a date
DateBounds ==
  {""} \cup TimeDates \cup {d \o "T" \o c : d \in TimeDates, c \in TimeClocks}
    \cup {"2026/03/01"}

IsTimestampInRange(timestamp, startDate, endDate) ==
  /\ Idle
  /\ call' = [op |-> "isTimestampInRange",
              o |-> [DefaultOptions EXCEPT !.startDate = startDate, !.endDate = endDate],
              pattern |-> "", lineNum |-> 0, timestamp |-> timestamp]
  /\ result' = Returned(isTimestampInRange(timestamp, startDate, endDate))
  /\ prior' = NoPrior
  /\ UNCHANGED <<path, logIndex>>

\* a getLogsFromLine call during which the writer appends `tail` to the log
\* after buildGameStateIndex has read it and before the scan reads it
GetLogsWhileWriting(o, tail) ==
  /\ Idle
  /\ path.kind = "file"
  /\ AtLineStart(path.content)
  /\ LineCount(path.content) < MaxContextLines
  /\ path' = [path EXCEPT !.content = @ \o tail]
  /\ call' = [NoCall EXCEPT !.op = "getLogsFromLine", !.o = o]
  /\ result' = LogsFromReads(path, path', o)
  /\ prior' = NoPrior
  /\ UNCHANGED logIndex

\* the log_last_line of the status command for a session with this log
status(logPath) ==
  IF ~existsSync(logPath) THEN Returned(0)
  ELSE IF readFails(logPath) THEN Threw
  ELSE Returned(Len(Split(logPath.content)))

Status ==
  /\ Idle
  /\ call' = [NoCall EXCEPT !.op = "status"]
  /\ result' = status(path)
  /\ prior' = NoPrior
  /\ UNCHANGED <<path, logIndex>>

GetLogPlacePath ==
  /\ Idle
  /\ call' = [NoCall EXCEPT !.op = "getLogPlacePath"]
  /\ LET Done(r) == result' = Returned(r.value) /\ logIndex' = r.index
     IN Done(getLogPlacePath(path, logIndex))
  /\ prior' = NoPrior
  /\ UNCHANGED path

GetAllLogCmdlines ==
  /\ Idle
  /\ call' = [NoCall EXCEPT !.op = "getAllLogCmdlines"]
  /\ LET Done(r) == result' = Returned(r.value) /\ logIndex' = r.index
     IN Done(getAllLogCmdlines(path, logIndex))
  /\ prior' = NoPrior
  /\ UNCHANGED path

\* the caller is done with the latest result
Consume ==
  /\ ~Idle
  /\ Cleared
  /\ UNCHANGED <<path, logIndex>>

Next ==
  \/ CreateFile
  \/ MakeDirectory
  \/ \E l \in LineKinds : WriteLine(l)
  \/ WriteNewline(MaxLines)
  \/ \E o \in ReadOptions : GetLogsFromLine(o)
  \/ ContinueLogs
  \/ \E p \in Patterns, o \in SearchOptions : SearchLogsFromLine(p, o)
  \/ \E o \in ErrorOptions : FindErrors(o)
  \/ \E o \in DateOptions : GetLogsByDate(o)
  \/ BuildGameStateIndex
  \/ Consume

Spec == Init /\ [][Next]_vars

\* the text queries on a log of long lines
NextBudget ==
  \/ CreateFile
  \/ \E l \in BudgetKinds : WriteLine(l)
  \/ WriteNewline(MaxBudgetLines)
  \/ \E o \in BudgetOptions : GetLogsFromLine(o)
  \/ ContinueLogs
  \/ \E p \in BudgetPatterns, o \in BudgetOptions : SearchLogsFromLine(p, o)
  \/ Consume

SpecBudget == Init /\ [][NextBudget]_vars

\* incremental reading of a log of long lines that is not written to while
\* it is being read: the writer acts between reads, and a result is dropped
\* once hasMore is false
NextDrain ==
  \/ CreateFile
  \/ \E l \in BudgetKinds : Idle /\ WriteLine(l)
  \/ Idle /\ WriteNewline(MaxBudgetLines)
  \/ \E o \in BudgetOptions : GetLogsFromLine(o)
  \/ DrainLogs
  \/ DrainDone

\* the caller's loop is weakly fair: it goes on for as long as hasMore is
\* true and ends when it is false.  The fairness of DrainLogs is
\* WF_vars(DrainLogs) with ENABLED <<DrainLogs>>_vars written out as the
\* guard DrainPending, every DrainLogs step moving the cursor.
SpecDrain ==
  /\ Init /\ [][NextDrain]_vars
  /\ []<>~DrainPending \/ []<><<DrainLogs>>_vars
  /\ WF_vars(DrainDone)

\* the queries on a log that goes through every run-context
NextContext ==
  \/ CreateFile
  \/ \E l \in ContextKinds : WriteLine(l)
  \/ WriteNewline(MaxContextLines)
  \/ \E o \in ContextOptions : GetLogsFromLine(o)
  \/ \E o \in ContextOptions : SearchLogsFromLine("ERROR", o)
  \/ \E o \in ContextOptions : ~o.includeContext /\ FindErrors(o)
  \/ \E o \in ContextOptions : GetLogsByDate([o EXCEPT !.timestamps = TRUE])
  \/ BuildGameStateIndex
  \/ \E lineNum \in 1..(MaxContextLines + 1) : GetRunContextForLine(lineNum)
  \/ Consume

SpecContext == Init /\ [][NextContext]_vars

\* the error scan on a log of errors by category and by level
NextErrors ==
  \/ CreateFile
  \/ \E l \in ErrorKinds : WriteLine(l)
  \/ WriteNewline(MaxLines)
  \/ \E o \in ErrorOptions : FindErrors(o)
  \/ BuildGameStateIndex
  \/ Status
  \/ Consume

SpecErrors == Init /\ [][NextErrors]_vars

\* the date-range test on its own
NextTime ==
  \/ \E timestamp \in Timestamps, startDate \in DateBounds, endDate \in DateBounds :
        IsTimestampInRange(timestamp, startDate, endDate)
  \/ Consume

SpecTime == Init /\ [][NextTime]_vars

\* reads of a log that Studio writes to while they run
NextRace ==
  \/ CreateFile
  \/ \E l \in ContextKinds : WriteLine(l)
  \/ WriteNewline(MaxContextLines)
  \/ \E o \in ContextOptions, l \in ContextKinds : GetLogsWhileWriting(o, <<l>>)
  \/ \E o \in ContextOptions, m \in ContextKinds, l \in ContextKinds :
        GetLogsWhileWriting(o, <<m, NL, l>>)
  \/ Consume

SpecRace == Init /\ [][NextRace]_vars

\* the side-index of a log that Studio is still writing the header of
NextIndex ==
  \/ CreateFile
  \/ \E l \in IndexKinds : WriteLine(l)
  \/ WriteNewline(MaxLines)
  \/ GetLogPlacePath
  \/ GetAllLogCmdlines
  \/ Consume

SpecIndex == Init /\ [][NextIndex]_vars

(***************************************************************************)
(* Properties.  The definitions below restate, from the file alone, which  *)
(* lines a query is to match; the claims compare them with what the scan   *)
(* returned.                                                               *)
(***************************************************************************)
IsTextQuery == call.op \in {"getLogsFromLine", "getLogsByDate", "searchLogsFromLine"}

IsReadQuery == call.op \in {"getLogsFromLine", "getLogsByDate"}

\* the options the latest query ran with
Opts ==
  IF call.op = "getLogsByDate"
  THEN [call.o EXCEPT !.afterLine = NullVal, !.beforeLine = NullVal]
  ELSE call.o

\* the latest query returned a result of its usual shape
Answered ==
  /\ ~Idle /\ ~result.threw
  /\ call.op = "searchLogsFromLine" => RegExpCompile(call.pattern, 1, "").ok

FileLines == Split(path.content)

InLineBounds(n, o) ==
  /\ o.afterLine.isNull \/ n > o.afterLine.v
  /\ o.beforeLine.isNull \/ n < o.beforeLine.v

RecordAt(n) == parseLogLine(Trim(FileLines[n]), n)

\* line n is a record that passes the category, exclusion, date and
\* run-context filters of a text query with options o
Passes(e, n, o) ==
  /\ ~e.isNull
  /\ IF o.categories.isNull
     THEN e.category \in {"FLog::Output", "FLog::Warning", "FLog::Error"}
     ELSE o.categories.v = <<>> \/ SeqIncludes(o.categories.v, e.category)
  /\ o.applyFilter => ~shouldExclude(e.message)
  /\ isTimestampInRange(e.timestamp, o.startDate, o.endDate)
  /\ o.runContext # "" =>
       getRunContextForLine(n, IndexOfContent(path.content)) = o.runContext

Survives(n, o) == Passes(RecordAt(n), n, o)

\* the line numbers the latest text query is to match
Matched ==
  LET Among(lines, o, regex) ==
        {n \in 1..Len(lines) :
           /\ InLineBounds(n, o)
           /\ LET Hit(e) ==
                    /\ Passes(e, n, o)
                    /\ call.op = "searchLogsFromLine" => RegExpTest(regex, e.message)
              IN Hit(parseLogLine(Trim(lines[n]), n))}
  IN Among(FileLines, Opts, RegExpCompile(call.pattern, 1, ""))

SeqToSet(q) == {q[k] : k \in 1..Len(q)}

\* t ends with the whole of the text m
EndsWith(t, m) ==
  /\ t.fill = m.fill
  /\ Len(t.head) >= Len(m.head)
  /\ SubSeq(t.head, Len(t.head) - Len(m.head) + 1, Len(t.head)) = m.head

\* C1: when a getLogsFromLine call is repeated on the unmodified file with
\* afterLine set to the lastLine it returned, the second call emits nothing
\* or starts after that lastLine, and emits no line the first one emitted.
C1_CursorAdvances ==
  (call.op = "getLogsFromLine" /\ ~prior.isNull /\ ~result.threw) =>
     /\ Len(result.value.emitted) = 0 \/ result.value.startLine > prior.value.lastLine
     /\ SeqToSet(result.value.emitted) \cap SeqToSet(prior.value.emitted) = {}

C1_Witness ==
  /\ call.op = "getLogsFromLine" /\ ~prior.isNull /\ ~result.threw
  /\ prior.value.hasMore
  /\ Len(prior.value.emitted) > 0
  /\ Len(result.value.emitted) > 0

\* C2: the text returned by getLogsFromLine is at most MAX_BYTES bytes long,
\* unless it consists of the first matching line alone.
C2_ByteBudget ==
  (IsReadQuery /\ Answered) =>
     \/ TextBytes(result.value.logs) <= 32000
     \/ /\ Len(result.value.emitted) = 1
        /\ \A n \in Matched : result.value.emitted[1] <= n

C2_Witness ==
  /\ IsReadQuery /\ Answered
  /\ TextBytes(result.value.logs) = 32000 - 1
  /\ result.value.hasMore

\* C3: on an existing file remaining plus the number of emitted lines is
\* the number of matching lines, and hasMore says that remaining > 0.
C3_RemainingCount ==
  (IsReadQuery /\ Answered /\ path.kind = "file") =>
     /\ result.value.remaining + Len(result.value.emitted) = Cardinality(Matched)
     /\ result.value.hasMore <=> result.value.remaining > 0

C3_Witness ==
  /\ IsReadQuery /\ Answered /\ path.kind = "file"
  /\ result.value.remaining > 0
  /\ Len(result.value.emitted) > 0
  /\ Cardinality(Matched) < Len(FileLines)

\* C4: in getLogsFromLine and searchLogsFromLine the first matching line is
\* always emitted, also when it alone exceeds the budget, and every emitted
\* line carries the whole message of its record.
C4_FirstLineWhole ==
  (IsTextQuery /\ Answered) =>
     LET Whole(out, matched, lines, e) ==
           /\ matched # {} =>
                /\ Len(e) > 0
                /\ e[1] \in matched
                /\ \A n \in matched : e[1] <= n
           /\ Len(e) > 0 => Len(out) = Len(e)
           /\ \A k \in 1..Len(e) :
                EndsWith(out[k], parseLogLine(Trim(lines[e[k]]), e[k]).message)
     IN Whole(Split(result.value.logs), Matched, FileLines, result.value.emitted)

C4_Witness ==
  /\ call.op = "searchLogsFromLine" /\ Answered
  /\ Len(result.value.emitted) = 1
  /\ TextBytes(result.value.logs) > 32000
  /\ result.value.hasMore

\* the latest findErrors call returned
ErrorsAnswered == call.op = "findErrors" /\ ~result.threw

\* C5: for every findErrors call with an integer maxErrors, the length of
\* errors is the smaller of errorCount and maxErrors, a negative maxErrors
\* counting as 0.
C5_ErrorCap ==
  ErrorsAnswered =>
     Len(result.value.errors) = Min(result.value.errorCount, Max(call.o.maxErrors, 0))

C5_Witness ==
  /\ ErrorsAnswered
  /\ call.o.maxErrors = 1
  /\ result.value.errorCount = 2
  /\ Len(result.value.errors) = 1

\* C5 as stated: the length of errors is min(errorCount, maxErrors) for
\* every findErrors call.
C5_Original ==
  ErrorsAnswered =>
     Len(result.value.errors) = Min(result.value.errorCount, call.o.maxErrors)

\* line n is a record whose non-empty message the exclusion filter drops
ExcludedRecord(n) ==
  /\ ~RecordAt(n).isNull
  /\ ByteLength(RecordAt(n).message) > 0
  /\ shouldExclude(RecordAt(n).message)

\* no line of the returned text ends with the message of an excluded record
NoExcludedOutput ==
  LET Clean(out, lines) ==
        \A n \in 1..Len(lines) :
          LET Kept(e) ==
                (~e.isNull /\ ByteLength(e.message) > 0 /\ shouldExclude(e.message))
                   => \A k \in 1..Len(out) : ~EndsWith(out[k], e.message)
          IN Kept(parseLogLine(Trim(lines[n]), n))
  IN Clean(Split(result.value.logs), FileLines)

\* C6: while applyFilter is true (its default), no line whose message
\* satisfies shouldExclude appears in the output of getLogsFromLine or
\* searchLogsFromLine, whatever the other options.
C6_ExclusionApplied ==
  (IsTextQuery /\ Answered /\ Opts.applyFilter) => NoExcludedOutput

C6_Witness ==
  /\ IsTextQuery /\ Answered /\ Opts.applyFilter
  /\ path.kind = "file"
  /\ Len(result.value.emitted) > 0
  /\ \E n \in 1..Len(FileLines) :
        /\ ExcludedRecord(n)
        /\ InLineBounds(n, Opts)
        /\ Survives(n, [Opts EXCEPT !.applyFilter = FALSE])

\* C6 as stated: no excluded message appears in the output, regardless of
\* the values of all other options.
C6_Original ==
  (IsTextQuery /\ Answered) => NoExcludedOutput

\* C7: on an existing file the ranges of buildGameStateIndex are ordered,
\* the first starts at line 1 in state Edit, each but the last ends just
\* before the next one starts, only the last has endLine = -1, every line of
\* the file lies in exactly one range, and the lengths add up to the file's
\* line count.
C7_RangesPartition ==
  (call.op = "buildGameStateIndex" /\ ~result.threw /\ path.kind = "file") =>
     LET ranges == result.value
         last   == Len(ranges)
         n      == Len(FileLines)
         End(k) == IF k = last THEN n ELSE ranges[k].endLine
         RECURSIVE Sum(_)
         Sum(k) == IF k = 0 THEN 0 ELSE Sum(k - 1) + (End(k) - ranges[k].startLine + 1)
     IN /\ last >= 1
        /\ ranges[1].startLine = 1
        /\ ranges[1].state = Str("Edit")
        /\ \A k \in 1..(last - 1) :
              /\ ranges[k].startLine <= ranges[k + 1].startLine
              /\ ranges[k].endLine = ranges[k + 1].startLine - 1
              /\ ranges[k].endLine # -1
        /\ ranges[last].endLine = -1
        /\ \A l \in 1..n :
              Cardinality({k \in 1..last : ranges[k].startLine <= l /\ l <= End(k)}) = 1
        /\ Sum(last) = n

C7_Witness ==
  /\ call.op = "buildGameStateIndex" /\ ~result.threw /\ path.kind = "file"
  /\ Len(result.value) >= 3
  /\ result.value[2].startLine > 1

\* the latest call returned the empty result of its operation
ReturnedEmpty ==
  /\ ~result.threw
  /\ IsTextQuery =>
        /\ result.value.logs = <<>>
        /\ result.value.startLine = 0
        /\ result.value.lastLine = 0
        /\ result.value.remaining = 0
        /\ result.value.hasMore = FALSE
        /\ "error" \notin DOMAIN result.value
  /\ call.op = "searchLogsFromLine" => result.value.matchCount = 0
  /\ call.op = "findErrors" =>
        /\ result.value.hasError = FALSE
        /\ result.value.errorCount = 0
        /\ result.value.errors = <<>>
  /\ call.op = "buildGameStateIndex" => result.value = <<>>

\* C8: when the path does not exist, getLogsFromLine, searchLogsFromLine,
\* findErrors and getLogsByDate return their empty result without throwing,
\* whatever the options, and buildGameStateIndex returns the empty list.
C8_MissingPathEmpty ==
  (path.kind = "missing" /\ ~Idle) => ReturnedEmpty

C8_Witness ==
  /\ path.kind = "missing"
  /\ call.op = "findErrors"
  /\ call.o.runContext = "play"
  /\ ~result.threw

\* the latest call is a search whose pattern is not a regular expression
InvalidSearch ==
  call.op = "searchLogsFromLine" /\ ~RegExpCompile(call.pattern, 1, "").ok

\* C9: when the path exists, a searchLogsFromLine call whose pattern is not
\* a valid regular expression does not throw and returns a result that
\* consists of an error field naming the pattern.
C9_InvalidPatternError ==
  (InvalidSearch /\ path.kind # "missing") =>
     /\ ~result.threw
     /\ DOMAIN result.value = {"error"}
     /\ result.value.error = "Invalid regex pattern: " \o call.pattern

C9_Witness ==
  /\ InvalidSearch
  /\ path.kind = "file"
  /\ Len(FileLines) >= 2
  /\ ~result.threw
  /\ "error" \in DOMAIN result.value

\* C9 as stated: the error field is returned whatever the state of the log
\* file, present, empty or missing.
C9_Original ==
  InvalidSearch => (~result.threw /\ "error" \in DOMAIN result.value)

\* C10: when the path exists and cannot be read, each of the four query
\* operations returns its empty result and raises no exception.
C10_UnreadableEmpty ==
  (/\ path.kind = "dir"
   /\ call.op \in {"getLogsFromLine", "getLogsByDate", "searchLogsFromLine", "findErrors"}
   /\ ~InvalidSearch) => ReturnedEmpty

\* the run-context of line L read off the file: the label of the last
\* transition marker at or before L, Edit when there is none, classified
MarkerLines == {n \in 1..Len(FileLines) : StateMarker(FileLines[n]).matched}

StateAt(L) ==
  LET before == {n \in MarkerLines : n <= L}
      last   == CHOOSE n \in before : \A m \in before : m <= n
  IN IF before = {} THEN Str("Edit") ELSE StateMarker(FileLines[last]).m1

ContextAt(L) ==
  LET label == ToLowerText(StateAt(L))
  IN IF Includes(label, "server") \/ Includes(label, "client") THEN "play"
     ELSE IF Includes(label, "edit") THEN "edit"
     ELSE "unknown"

\* line n is a record findErrors with options o is to count: the error
\* predicate, the exclusion filter, the date range and the run-context
ErrorSurvives(n, o) ==
  LET e == RecordAt(n)
  IN /\ ~e.isNull
     /\ \/ e.category \in {"FLog::Warning", "FLog::Error", "DFLog::HttpTraceError"}
        \/ ToLowerCase(e.level) \in {"warning", "error"}
     /\ ~shouldExclude(e.message)
     /\ isTimestampInRange(e.timestamp, o.startDate, o.endDate)
     /\ o.runContext # "" => ContextAt(n) = o.runContext

\* the line numbers the latest findErrors call is to count
ErrorMatched ==
  {n \in 1..Len(FileLines) : InLineBounds(n, call.o) /\ ErrorSurvives(n, call.o)}

\* C11: afterLine and beforeLine are exclusive bounds in getLogsFromLine,
\* searchLogsFromLine and findErrors: every emitted line and every error
\* entry has a line number n with afterLine < n < beforeLine, and the lines
\* outside the bounds are not counted in remaining, matchCount or errorCount.
C11_ExclusiveBounds ==
  /\ (Answered /\ call.op \in {"getLogsFromLine", "searchLogsFromLine"}) =>
        /\ \A n \in SeqToSet(result.value.emitted) : InLineBounds(n, call.o)
        /\ Len(result.value.emitted) + result.value.remaining = Cardinality(Matched)
  /\ ErrorsAnswered =>
        /\ \A k \in 1..Len(result.value.errors) :
              InLineBounds(result.value.errors[k].line, call.o)
        /\ result.value.errorCount = Cardinality(ErrorMatched)

\* a read between both bounds of a file that has matching lines on them
C11_Witness ==
  /\ call.op = "getLogsFromLine" /\ ~result.threw
  /\ call.o.afterLine = Val(1) /\ call.o.beforeLine = Val(MaxLines)
  /\ Len(FileLines) >= MaxLines
  /\ Survives(1, call.o) /\ Survives(MaxLines, call.o)
  /\ result.value.emitted = <<2>>
  /\ result.value.remaining = 0

\* the latest getLogsFromLine or searchLogsFromLine call returned its lines
TextAnswered == Answered /\ call.op \in {"getLogsFromLine", "searchLogsFromLine"}

\* C12: startLine and lastLine of a getLogsFromLine or searchLogsFromLine
\* result are the line numbers of the first and of the last emitted line,
\* never the number of a matched line the byte budget kept out, with
\* startLine <= lastLine; both are 0 when nothing is emitted.
C12_FirstLastEmitted ==
  TextAnswered =>
    LET v == result.value
        e == v.emitted
    IN IF Len(e) = 0 THEN v.startLine = 0 /\ v.lastLine = 0 /\ v.logs = <<>>
       ELSE /\ v.startLine = e[1] /\ v.lastLine = e[Len(e)]
            /\ v.startLine <= v.lastLine
            /\ Len(Split(v.logs)) = Len(e)
            /\ \A k \in 1..Len(e) :
                  /\ e[k] \in Matched
                  /\ call.op = "searchLogsFromLine" =>
                        StartsWith(Split(v.logs)[k], ToString(e[k]) \o "|")

\* the byte budget kept a matching line out after the last emitted one
C12_Witness ==
  /\ TextAnswered
  /\ Len(result.value.emitted) = 2
  /\ result.value.startLine < result.value.lastLine
  /\ \E n \in Matched : n > result.value.lastLine

\* C13: every entry findErrors returns carries as context the run-context
\* of its line, getRunContextForLine(line, buildGameStateIndex(file)), in
\* every call, whether or not a runContext filter is passed.
C13_ErrorContextResolved ==
  (ErrorsAnswered /\ path.kind = "file") =>
    \A k \in 1..Len(result.value.errors) :
      result.value.errors[k].context =
        getRunContextForLine(result.value.errors[k].line, IndexOfContent(path.content))

\* the line numbers the latest text query is to match, the run-context of a
\* line being read off the markers of the file
ContextMatched ==
  {n \in 1..Len(FileLines) :
     /\ InLineBounds(n, Opts)
     /\ Survives(n, [Opts EXCEPT !.runContext = ""])
     /\ ContextAt(n) = Opts.runContext
     /\ call.op = "searchLogsFromLine" =>
          RegExpTest(RegExpCompile(call.pattern, 1, ""), RecordAt(n).message)}

\* C14: with a runContext filter c (play or edit), every line that
\* getLogsFromLine or searchLogsFromLine emits or counts, and every entry
\* of findErrors, lies in a range of the index whose context is c; a line
\* of another context, unknown included, is neither emitted nor counted.
C14_HardContextFilter ==
  /\ (TextAnswered /\ call.o.runContext # "") =>
        /\ \A n \in SeqToSet(result.value.emitted) : ContextAt(n) = call.o.runContext
        /\ Len(result.value.emitted) + result.value.remaining
             = Cardinality(ContextMatched)
  /\ (ErrorsAnswered /\ call.o.runContext # "") =>
        /\ \A k \in 1..Len(result.value.errors) :
              /\ ContextAt(result.value.errors[k].line) = call.o.runContext
              /\ result.value.errors[k].context = call.o.runContext
        /\ result.value.errorCount = Cardinality(ErrorMatched)

\* a play-only read of a file with a record in each of the edit and play
\* states
C14_Witness ==
  /\ call.op = "getLogsFromLine" /\ ~result.threw
  /\ call.o.runContext = "play"
  /\ Len(FileLines) = 3
  /\ Survives(1, DefaultOptions) /\ ContextAt(1) = "edit"
  /\ result.value.emitted = <<3>>
  /\ result.value.remaining = 0

\* C15: for every file and every line number L >= 1,
\* getRunContextForLine(L, buildGameStateIndex(file)) is the classification
\* of the state set by the last transition marker at a line <= L (the
\* marker's own line belongs to the new state), of Edit when there is none:
\* play for a server or client label, edit for an edit label, unknown
\* otherwise.
C15_ContextOfLastMarker ==
  (call.op = "getRunContextForLine" /\ ~result.threw /\ path.kind = "file") =>
     result.value = ContextAt(call.lineNum)

\* the line asked about is the line of a marker that changes the context
C15_Witness ==
  /\ call.op = "getRunContextForLine" /\ ~result.threw
  /\ call.lineNum \in MarkerLines
  /\ call.lineNum > 1
  /\ ContextAt(call.lineNum - 1) = "play"
  /\ result.value = "unknown"

\* a timestamp or date bound written in one of the four recognized shapes
\* with calendar fields in range
WellFormed(str) ==
  \/ str \in TimeDates
  \/ \E d \in TimeDates, c \in TimeClocks :
        \/ str = d \o "T" \o c
        \/ \E f \in TimeFractions : str = d \o "T" \o c \o f \o "Z"

\* the digits of the fraction of a second of str, "" when it has none
FractionOf(str) == IF Len(str) > 20 THEN SubSeq(str, 21, Len(str) - 1) ELSE ""

\* the instant a well-formed str denotes, as <<calendar day, millisecond of
\* the day>> read off its fields; the pairs order as the instants do
FieldsKey(str) ==
  LET f  == FractionOf(str)
      ms == CASE Len(f) = 0 -> 0
              [] Len(f) = 1 -> 100 * ToNumber(f)
              [] Len(f) = 2 -> 10 * ToNumber(f)
              [] OTHER -> ToNumber(SubSeq(f, 1, 3))
      clock == IF Len(str) = 10 THEN 0
               ELSE (ToNumber(SubSeq(str, 12, 13)) * 60 + ToNumber(SubSeq(str, 15, 16))) * 60
                      + ToNumber(SubSeq(str, 18, 19))
  IN << (ToNumber(SubSeq(str, 1, 4)) * 12 + ToNumber(SubSeq(str, 6, 7))) * 31
          + ToNumber(SubSeq(str, 9, 10)),
        clock * 1000 + ms >>

KeyLeq(a, b) == a[1] < b[1] \/ (a[1] = b[1] /\ a[2] <= b[2])

\* the effective end: the last millisecond of the day for a bare date
EndKey(endDate) ==
  IF Len(endDate) = 10 THEN << FieldsKey(endDate)[1], 86399999 >> ELSE FieldsKey(endDate)

\* C16: for a parseable timestamp ts and parseable bounds,
\* isTimestampInRange(ts, start, end) is true exactly when
\* start <= ts <= end', both ends inclusive, an absent bound being
\* unconstrained and end' being 23:59:59.999 UTC of its day when end is a
\* bare 10-character date; with both bounds absent the result is true.
C16_InclusiveRange ==
  (call.op = "isTimestampInRange" /\ ~result.threw) =>
    LET ts    == call.timestamp
        start == call.o.startDate
        end   == call.o.endDate
    IN /\ (start = "" /\ end = "") => result.value = TRUE
       /\ (/\ WellFormed(ts)
           /\ start = "" \/ WellFormed(start)
           /\ end = "" \/ WellFormed(end))
            => result.value =
                 (/\ start = "" \/ KeyLeq(FieldsKey(start), FieldsKey(ts))
                  /\ end = "" \/ KeyLeq(FieldsKey(ts), EndKey(end)))

\* the timestamp is the very instant of the start bound and falls in the
\* last millisecond of the bare end date
C16_Witness ==
  /\ call.op = "isTimestampInRange" /\ ~result.threw
  /\ call.timestamp = "2026-03-01T23:59:59.9997Z"
  /\ call.o.startDate = "2026-03-01T23:59:59"
  /\ call.o.endDate = "2026-03-01"
  /\ result.value = TRUE

\* line n is a record whose timestamp parseTimestamp does not read
Unparseable(n) ==
  /\ ~RecordAt(n).isNull
  /\ parseTimestamp(RecordAt(n).timestamp) = NullDate

DateBounded(o) == o.startDate # "" \/ o.endDate # ""

\* C17: when a date bound is given, a record whose timestamp is missing or
\* does not parse is never in range: isTimestampInRange is false for it and
\* none of the four query operations emits or counts it; with no date
\* bound the same record is still eligible (the lines of SpecContext are
\* short, so every eligible line is emitted).
C17_UnparseableOutOfRange ==
  /\ (Answered /\ IsTextQuery) =>
        /\ DateBounded(Opts) =>
              /\ \A n \in SeqToSet(result.value.emitted) : ~Unparseable(n)
              /\ Len(result.value.emitted) + result.value.remaining
                   = Cardinality({n \in Matched : ~Unparseable(n)})
        /\ ~DateBounded(Opts) =>
              \A n \in Matched : n \in SeqToSet(result.value.emitted)
  /\ ErrorsAnswered =>
        /\ DateBounded(call.o) =>
              /\ \A k \in 1..Len(result.value.errors) :
                    ~Unparseable(result.value.errors[k].line)
              /\ result.value.errorCount
                   = Cardinality({n \in ErrorMatched : ~Unparseable(n)})
        /\ ~DateBounded(call.o) =>
              \A n \in ErrorMatched :
                \E k \in 1..Len(result.value.errors) : result.value.errors[k].line = n
  /\ (path.kind = "file" /\ ~Idle) =>
        \A n \in 1..Len(FileLines) :
          Unparseable(n) =>
            /\ DateBounded(call.o) =>
                  ~isTimestampInRange(RecordAt(n).timestamp, call.o.startDate,
                                      call.o.endDate)
            /\ ~DateBounded(call.o) => isTimestampInRange(RecordAt(n).timestamp, "", "")

\* a read with an end date of a file that holds a record without a usable
\* timestamp and one with: only the latter is emitted
C17_Witness ==
  /\ call.op = "getLogsFromLine" /\ ~result.threw
  /\ call.o.endDate # "" /\ call.o.startDate = ""
  /\ Len(FileLines) = 2
  /\ Unparseable(1) /\ Survives(1, DefaultOptions)
  /\ ~Unparseable(2)
  /\ result.value.emitted = <<2>>
  /\ result.value.remaining = 0

\* C18: errorCount of findErrors is the number of lines within the line
\* bounds that parse, satisfy the error predicate (level Warning or Error,
\* or an error category), are not excluded and pass the date and
\* run-context filters; it does not depend on maxErrors, and hasError holds
\* exactly when errorCount > 0.
C18_TrueErrorCount ==
  ErrorsAnswered =>
    /\ result.value.errorCount = Cardinality(ErrorMatched)
    /\ result.value.hasError = (result.value.errorCount > 0)
    /\ \A cap \in {0, 100} :
          findErrors(path, [call.o EXCEPT !.maxErrors = cap]).value.errorCount
            = result.value.errorCount

\* a capped scan of a file with an error by level, an excluded warning and
\* an error by category: two are counted, one is returned
C18_Witness ==
  /\ ErrorsAnswered
  /\ call.o.maxErrors = 1
  /\ FileLines = <<WarnLine, NoiseLine, ErrorLine>>
  /\ result.value.errorCount = 2
  /\ result.value.hasError
  /\ Len(result.value.errors) = 1

\* the lines getLogsFromLine counts under the options of the latest call
ReadCounted == {n \in 1..Len(FileLines) : InLineBounds(n, call.o) /\ Survives(n, call.o)}

\* those whose message holds the pattern, a literal, whatever the case
PatternHits ==
  {n \in ReadCounted :
     Includes(ToLowerText(RecordAt(n).message), ToLowerCase(call.pattern))}

\* C19: searchLogsFromLine applies the pipeline of getLogsFromLine and one
\* more predicate, the case-insensitive test of the message against the
\* pattern: for every valid pattern, file and options, matchCount +
\* remaining is the number of lines getLogsFromLine counts under the same
\* options whose message matches, matchCount is the number of emitted
\* lines, and no emitted line has a message that does not match.
C19_SearchIsFilteredRead ==
  (Answered /\ call.op = "searchLogsFromLine") =>
    LET v    == result.value
        read == getLogsFromLine(path, call.o).value
    IN /\ Len(read.emitted) + read.remaining = Cardinality(ReadCounted)
       /\ LET Agrees(hits) ==
                /\ v.matchCount + v.remaining = Cardinality(hits)
                /\ SeqToSet(v.emitted) \subseteq hits
          IN Agrees(PatternHits)
       /\ v.matchCount = Len(v.emitted)
       /\ v.matchCount = Len(Split(v.logs)) \/ (v.matchCount = 0 /\ v.logs = <<>>)

\* an upper-case pattern finds the one lower-case message of two lines
\* getLogsFromLine counts
C19_Witness ==
  /\ Answered /\ call.op = "searchLogsFromLine"
  /\ call.pattern = "ERROR"
  /\ Cardinality(ReadCounted) = 2
  /\ result.value.matchCount = 1
  /\ result.value.remaining = 0

\* the allow-list in force: the list of the caller when one is passed, the
\* default set otherwise
EffectiveCategories(o) ==
  IF o.categories.isNull THEN {"FLog::Output", "FLog::Warning", "FLog::Error"}
  ELSE SeqToSet(o.categories.v)

\* line n passes every filter of a text query but the category one
SurvivesOtherFilters(n, o) ==
  /\ InLineBounds(n, o)
  /\ Survives(n, [o EXCEPT !.categories = Val(<<>>)])
  /\ call.op = "searchLogsFromLine" =>
       Includes(ToLowerText(RecordAt(n).message), ToLowerCase(call.pattern))

\* C20: every line getLogsFromLine or searchLogsFromLine emits or counts
\* has its category in the allow-list in force, which is the list of the
\* caller when a non-empty one is passed and the default set when none is;
\* an empty list of the caller turns the category filter off, and lines
\* of every category are then emitted and counted.
C20_CategoryAllowList ==
  (Answered /\ IsTextQuery) =>
    LET v == result.value
        Allowed(lines, o) ==
          {n \in 1..Len(lines) :
             /\ InLineBounds(n, o)
             /\ LET Hit(e) ==
                      /\ Passes(e, n, [o EXCEPT !.categories = Val(<<>>)])
                      /\ call.op = "searchLogsFromLine" =>
                           Includes(ToLowerText(e.message), ToLowerCase(call.pattern))
                      /\ \/ ~o.categories.isNull /\ o.categories.v = <<>>
                         \/ e.category \in EffectiveCategories(o)
                IN Hit(parseLogLine(Trim(lines[n]), n))}
        Agrees(allowed) ==
          /\ SeqToSet(v.emitted) \subseteq allowed
          /\ Len(v.emitted) + v.remaining = Cardinality(allowed)
    IN Agrees(Allowed(FileLines, Opts))

\* a read with a one-category list of a file that has a record of that
\* category and one of another
C20_Witness ==
  /\ call.op = "getLogsFromLine" /\ ~result.threw
  /\ call.o.categories = Val(<<"FLog::Error">>)
  /\ Len(FileLines) = 2
  /\ SurvivesOtherFilters(1, call.o) /\ RecordAt(1).category = "FLog::Output"
  /\ result.value.emitted = <<2>>
  /\ result.value.remaining = 0

\* C20 as stated: the allow-list in force is the list of the caller
\* whatever its size, the empty list included.
C20_Original ==
  (Answered /\ IsTextQuery) =>
    /\ \A n \in SeqToSet(result.value.emitted) :
          RecordAt(n).category \in EffectiveCategories(Opts)
    /\ Len(result.value.emitted) + result.value.remaining =
          Cardinality({n \in 1..Len(FileLines) :
                         /\ SurvivesOtherFilters(n, Opts)
                         /\ RecordAt(n).category \in EffectiveCategories(Opts)})

\* C21: applyFilter changes only whether excluded messages are dropped: the
\* lines getLogsFromLine matches with applyFilter false are the lines it
\* matches with applyFilter true plus exactly the lines that pass the other
\* filters and whose message satisfies shouldExclude; with applyFilter
\* true none of the latter is emitted.
C21_ApplyFilterOnly ==
  (call.op = "getLogsFromLine" /\ prior.isNull /\ ~result.threw /\ path.kind = "file") =>
    LET Count(v) == Len(v.emitted) + v.remaining
        Differ(on, off, excluded) ==
          /\ Count(off) = Count(on) + Cardinality(excluded)
          /\ SeqToSet(on.emitted) \cap excluded = {}
          /\ (~on.hasMore /\ ~off.hasMore) =>
                SeqToSet(off.emitted) = SeqToSet(on.emitted) \cup excluded
        Excluded(lines, o) ==
          {n \in 1..Len(lines) :
             /\ InLineBounds(n, o)
             /\ LET Dropped(e) ==
                      /\ Passes(e, n, [o EXCEPT !.applyFilter = FALSE])
                      /\ shouldExclude(e.message)
                IN Dropped(parseLogLine(Trim(lines[n]), n))}
        Other(other) ==
          IF call.o.applyFilter
          THEN Differ(result.value, other, Excluded(FileLines, call.o))
          ELSE Differ(other, result.value, Excluded(FileLines, call.o))
    IN Other(getLogsFromLine(path, [call.o EXCEPT !.applyFilter = ~call.o.applyFilter]).value)

\* a read with applyFilter false of a file with an excluded record and one
\* that is not: both are emitted
C21_Witness ==
  /\ call.op = "getLogsFromLine" /\ prior.isNull /\ ~result.threw
  /\ ~call.o.applyFilter
  /\ FileLines = <<NoiseLine, ErrorLine>>
  /\ result.value.emitted = <<1, 2>>
  /\ getLogsFromLine(path, [call.o EXCEPT !.applyFilter = TRUE]).value.emitted = <<2>>

\* C22: within one getLogsFromLine or searchLogsFromLine call emission
\* stops for good at the first matching line that would overflow the
\* budget: the emitted lines are a prefix, in ascending line order, of the
\* sequence of matching lines, so every matched line that is not emitted
\* has a line number greater than lastLine.
C22_EmittedPrefix ==
  TextAnswered =>
    LET Prefix_(e, matched) ==
          /\ \A k \in 1..Len(e) :
                /\ e[k] \in matched
                /\ Cardinality({n \in matched : n <= e[k]}) = k
          /\ \A n \in matched \ SeqToSet(e) : n > result.value.lastLine
    IN Prefix_(result.value.emitted, Matched)

\* a long line is kept out by the budget and a short matching line after
\* it is not emitted either
C22_Witness ==
  /\ call.op = "getLogsFromLine" /\ ~result.threw
  /\ FileLines = <<HalfLine, HugeLine, ErrorLine>>
  /\ Matched = {1, 2, 3}
  /\ result.value.emitted = <<1>>
  /\ result.value.remaining = 2

\* C23: in a polling sequence in which every getLogsFromLine call passes
\* the lastLine of the previous result as afterLine, the cursor never
\* moves backwards: the lastLine of each result is >= the afterLine the
\* call was given, also when the call emitted nothing, and no line is
\* emitted by two polls.
C23_CursorNeverBack ==
  (call.op = "getLogsFromLine" /\ ~prior.isNull /\ ~result.threw) =>
    /\ result.value.lastLine >= call.o.afterLine.v
    /\ SeqToSet(result.value.emitted) \cap SeqToSet(prior.value.emitted) = {}

\* a getLogsFromLine call is the latest of an incremental reading
Polling == call.op = "getLogsFromLine" /\ ~result.threw

\* the reading has come to its end
Drained == Polling /\ ~result.value.hasMore

\* the lines emitted over the calls of a reading that has come to its end
\* are the matching lines of the range of its first call, ascending
DrainedExactly ==
  Drained =>
    LET Exactly(total, first) ==
          /\ \A k \in 1..(Len(total) - 1) : total[k] < total[k + 1]
          /\ SeqToSet(total) =
               {n \in 1..Len(FileLines) : InLineBounds(n, first) /\ Survives(n, first)}
    IN IF prior.isNull
       THEN Exactly(result.value.emitted, call.o)
       ELSE Exactly(prior.value.emitted \o result.value.emitted, prior.o)

\* C24: on an unmodified file, repeating getLogsFromLine with afterLine set
\* to the previous lastLine for as long as hasMore is true ends after
\* finitely many calls with hasMore false, and the lines emitted over those
\* calls, one after the other, are exactly the matching lines of the range
\* of the first call, each once and in ascending order.
C24_DrainComplete ==
  /\ []DrainedExactly
  /\ DrainPending ~> Drained

\* a log of three long lines is read to the end in three calls
C24_Witness ==
  /\ Drained
  /\ ~prior.isNull
  /\ FileLines = <<HugeLine, HalfLine, HugeLine>>
  /\ prior.o.afterLine.isNull /\ prior.o.beforeLine.isNull
  /\ prior.value.emitted = <<1, 2>>
  /\ result.value.emitted = <<3>>

\* C25: buildGameStateIndex opens a new range only at a line whose bracketed
\* category is the state-manager component and whose message carries the
\* transition phrase; a line of another category never starts a range,
\* whatever its message says.
C25_MarkerCategoryOnly ==
  (call.op = "buildGameStateIndex" /\ ~result.threw /\ path.kind = "file") =>
     \A k \in 2..Len(result.value) :
        LET Marks(e) ==
              /\ ~e.isNull
              /\ e.category = "FLog::AssetDataModelManager"
              /\ Includes(e.message, StatePhrase)
        IN Marks(RecordAt(result.value[k].startLine))

\* C26: the date-range filter fails closed on an unparseable bound as
\* well: when startDate or endDate is given and is not in one of the
\* recognized shapes, isTimestampInRange is false for every record.
C26_BoundFailsClosed ==
  (call.op = "isTimestampInRange" /\ ~result.threw) =>
    LET Unread(bound) == bound # "" /\ ~WellFormed(bound)
    IN (Unread(call.o.startDate) \/ Unread(call.o.endDate)) => result.value = FALSE

\* C27: over any sequence of modifications of the log file (each one
\* changing its modification time) and of getAllLogCmdlines and
\* getLogPlacePath calls that share the side-index, the command line
\* getAllLogCmdlines returns for the log file is the one extracted from the
\* file as it is: an entry written by getLogPlacePath never makes it stale
\* or missing.
C27_CmdlineCurrent ==
  (call.op = "getAllLogCmdlines" /\ ~result.threw) =>
     result.value = getLogCommandLineRaw(path)

\* C28: the log_last_line of the status command is a safe cursor: whatever
\* the log holds when status is called, also when it ends with a line feed,
\* a line appended afterwards has a line number greater than log_last_line,
\* and getLogsFromLine with afterLine = log_last_line does not skip it.
C28_SafeCursor ==
  [][(/\ call.op = "status" /\ ~result.threw /\ path.kind = "file"
      /\ Len(path'.content) > Len(path.content)
      /\ path'.content[Len(path'.content)] # NL)
     => LET Read(lines, after) ==
              /\ Len(lines) > result.value
              /\ ~parseLogLine(Trim(lines[Len(lines)]), Len(lines)).isNull
                   => Len(lines) \in SeqToSet(after.value.emitted)
        IN Read(Split(path'.content),
                getLogsFromLine(path', [DefaultOptions EXCEPT
                                          !.afterLine = Val(result.value),
                                          !.categories = Val(<<>>),
                                          !.applyFilter = FALSE]))]_vars

\* C29: within one getLogsFromLine call that uses the run-context, the
\* context given to every emitted line is the one implied by the nearest
\* preceding transition marker of the content the scan read, also when the
\* writer appends lines, a marker among them, between the read that builds
\* the index and the read of the scan.
C29_ContextOfScannedContent ==
  (call.op = "getLogsFromLine" /\ ~result.threw) =>
    LET Label(ctx) == IF ctx = "play" THEN "[P]" ELSE IF ctx = "edit" THEN "[E]" ELSE "[?]"
        Labelled(out, e) ==
          \A k \in 1..Len(e) : StartsWith(out[k], Label(ContextAt(e[k])))
    IN /\ call.o.runContext # "" =>
            \A n \in SeqToSet(result.value.emitted) : ContextAt(n) = call.o.runContext
       /\ (call.o.includeContext /\ Len(result.value.emitted) > 0) =>
            Labelled(Split(result.value.logs), result.value.emitted)

\* the latest call is buildGameStateIndex on a file it could read
Indexed == call.op = "buildGameStateIndex" /\ ~result.threw /\ path.kind = "file"

\* C30 (as stated): every range of buildGameStateIndex other than the open
\* last one is a non-empty interval, 1 <= startLine <= endLine, wherever
\* the markers are, on line 1 and on consecutive lines included.
C30_Original ==
  Indexed =>
    \A k \in 1..(Len(result.value) - 1) :
       /\ 1 <= result.value[k].startLine
       /\ result.value[k].startLine <= result.value[k].endLine

\* C30: every range of buildGameStateIndex other than the open last one
\* has 1 <= startLine <= endLine, except the initial implicit Edit range,
\* which is the empty interval from 1 to 0 exactly when line 1 carries a
\* transition marker; markers on consecutive lines give ranges of one line.
C30_RangesWellFormed ==
  Indexed =>
    LET Shaped(r, first) ==
          /\ \A k \in 1..(Len(r) - 1) :
                /\ 1 <= r[k].startLine
                /\ k > 1 \/ ~first => r[k].startLine <= r[k].endLine
          /\ first => r[1].startLine = 1 /\ r[1].endLine = 0
    IN Shaped(result.value, 1 \in MarkerLines)

\* markers on lines 1 and 2: the implicit range is empty and the range of
\* the first marker is line 1 alone
C30_Witness ==
  /\ Indexed
  /\ FileLines = <<PlayLine, EditLine>>
  /\ Len(result.value) = 3
  /\ result.value[1].startLine = 1 /\ result.value[1].endLine = 0
  /\ result.value[2].startLine = 1 /\ result.value[2].endLine = 1
  /\ result.value[3].startLine = 2

====
